---- MODULE Spec2Model ----
(***************************************************************************)
(* Galera cluster recovery of the mariadb-operator: the orchestrator       *)
(* reconcileRecovery with its phases (state collection, recovery mode,     *)
(* bootstrap, pod restart) and the recovery record it persists in the      *)
(* MariaDB status.                                                         *)
(*                                                                         *)
(* Pods are identified by their StatefulSet ordinal; with fewer than ten   *)
(* replicas the order of the names "<mariadb>-<i>" is the order of the     *)
(* ordinals.  A nil pointer is the empty set, a non-nil pointer a          *)
(* singleton.  A Go map is a function whose domain is the set of keys.     *)
(***************************************************************************)
EXTENDS Integers, Sequences, FiniteSets, TLC

\* mariadb.Spec.Replicas
NumPods == 3

\* Largest sequence number among the inputs of the bootstrap-source selection
\* when it is checked on its own (SpecSel).
MaxSeqno == 1

AllPods == 0 .. (NumPods - 1)

\* The sequence numbers the agents report to the orchestrator: a position
\* behind and a position ahead.  The orchestrator stores them and hands them
\* to the selection, which only compares them.
Seqnos == {0, 1}

\* GaleraState as returned by the agent: seqno and safe_to_bootstrap.
NodeStates == [seqno : Seqnos, safe : BOOLEAN]

\* The pod lists getPods may return: the label selector lists the pods that
\* exist at that moment, sorted by name.
PodLists == {AllPods, AllPods \ {NumPods - 1}, {}}

VARIABLES
    stored,     \* mariadb.Status.GaleraRecovery in the API server: {} (nil) or {record}
    expired,    \* time.Now() is after the stored bootstrap time + ClusterBootstrapTimeout
    pc,         \* position of the running reconcileRecovery; "done" once it returned,
                \* "idle" before the next invocation
    rs,         \* recoveryStatus.inner of the running invocation
    pods,       \* the pod list of the running invocation
    task,       \* per pod, the state of its goroutine in the current errgroup
    gerr,       \* the errgroup's error: {} or the pod whose goroutine failed first
    src,        \* the selected bootstrapSource: {} (nil) or {source}
    podKeys,    \* restartPods: the ordered list of pods to restart
    idx,        \* restartPods: position in podKeys
    result,     \* what the invocation returned
    calls,      \* history: the kinds of collaborator calls made by the invocation
    patch,      \* history: outcome of the invocation's latest status patch
    safe,       \* history: what the bootstrap pod's agent answered to restartPods
    deleted,    \* history: pods deleted by restartPods, in order
    synced,     \* history: pods restartPods saw synced, in order
    timedOut,   \* history: the invocation found the bootstrap attempt timed out
    cluster,    \* per pod name, the Pod object the API server holds
    seen,       \* history: the Pod objects returned by the Gets that let a poll go on
    elapsed,    \* restartPods: time since syncContext was created
    deadline,   \* restartPods: the deadline of syncContext, on the scale of elapsed
    bootstrapped, \* history: the pods whose agent accepted Bootstrap.Enable since
                \* the status was last reset
    undisabled  \* history: the pods with an entry in recovered on which
                \* Recovery.Disable has not succeeded since their Recovery.Start

\* The pods as the restart loop and ensurePodRunning see them.  The actions
\* of reconcileRecovery above the polls do not look at them.
podVars == <<cluster, seen, elapsed, deadline>>

\* What the agents were made to do over the invocations that worked on one
\* record.  No action's guard reads them.
histVars == <<bootstrapped, undisabled>>

vars == <<stored, expired, pc, rs, pods, task, gerr, src, podKeys, idx, result,
          calls, patch, safe, deleted, synced, timedOut, cluster, seen, elapsed, deadline,
          bootstrapped, undisabled>>

\* A Pod object: its phase ("Absent": there is no object of that name and Get
\* returns NotFound), whether its deletion was requested and it is still
\* there, and whether it was created after the running handler deleted the
\* pod of that name.
RunningPod == [phase |-> "Running", term |-> FALSE, fresh |-> FALSE]

\* Where polls are taken as one step, the pods are not looked at.
NoPodView ==
    /\ cluster = [p \in AllPods |-> RunningPod]
    /\ seen = <<>>
    /\ elapsed = 0
    /\ deadline = 0

\* No agent has been asked anything yet.
NoHistory ==
    /\ bootstrapped = {}
    /\ undisabled = {}

----------------------------------------------------------------------------
(* The recovery record                                                      *)

EmptyMap == [p \in {} |-> 0]

\* The zero value of GaleraRecoveryStatus.
ZeroRec == [states |-> EmptyMap, recovered |-> EmptyMap, bootstrap |-> {}, podsRestarted |-> FALSE]

MapSet(m, p, v) == [q \in (DOMAIN m) \cup {p} |-> IF q = p THEN v ELSE m[q]]

\* newRecoveryStatus: the in-memory record is a copy of the status, the zero
\* record when the status holds none.
newRecoveryStatus(st) == IF st = {} THEN ZeroRec ELSE CHOOSE r \in st : TRUE

\* reflect.ValueOf(galeraRecoveryStatus).IsZero()
IsZero(r) == r = ZeroRec

\* ToStatus without the zero check: the status always gets a record.
ToStatusAlways(r) == {r}

\* What patchRecoveryStatus stores on success: nil for the zero record.
ToStatus(r) == IF IsZero(r) THEN {} ELSE {r}

setState(r, p, ns) == [r EXCEPT !.states = MapSet(r.states, p, ns)]

setRecovered(r, p, s) == [r EXCEPT !.recovered = MapSet(r.recovered, p, s)]

setBootstrapping(r, p) == [r EXCEPT !.bootstrap = {p}]

setPodsRestarted(r, b) == [r EXCEPT !.podsRestarted = b]

reset(r) == ZeroRec

isBootstrapping(r) == r.bootstrap # {}

podsRestarted(r) == r.podsRestarted

\* The attempt's age exceeds the timeout: there is an attempt and the clock
\* is past its deadline.
bootstrapTimeout(r, exp) == r.bootstrap # {} /\ exp

----------------------------------------------------------------------------
(* Bootstrap-source selection (recoveryStatus.bootstrapSource)              *)

\* Scan with the comparison off by one: a later pod replaces the candidate
\* also with an equal seqno.
RECURSIVE ScanLast(_, _, _, _)
ScanLast(m, ps, i, best) ==
    IF i >= NumPods THEN best
    ELSE IF /\ i \in ps
            /\ i \in DOMAIN m
            /\ \/ best = {}
               \/ \E b \in best : m[i] >= b.seqno
         THEN ScanLast(m, ps, i + 1, {[pod |-> i, seqno |-> m[i]]})
         ELSE ScanLast(m, ps, i + 1, best)

\* One pass over the pod list in its order (sorted by name), keeping the best
\* candidate seen so far; a later pod replaces it only with a strictly
\* greater seqno.  m maps candidate pods to their seqno.
RECURSIVE Scan(_, _, _, _)
Scan(m, ps, i, best) ==
    IF i >= NumPods THEN best
    ELSE IF /\ i \in ps
            /\ i \in DOMAIN m
            /\ \/ best = {}
               \/ \E b \in best : m[i] > b.seqno
         THEN Scan(m, ps, i + 1, {[pod |-> i, seqno |-> m[i]]})
         ELSE Scan(m, ps, i + 1, best)

\* The seqnos of the pods whose recorded state says safe_to_bootstrap.
SafeSeqnos(r) ==
    [p \in {q \in DOMAIN r.states : r.states[q].safe} |-> r.states[p].seqno]

WithOrigin(best, o) == {[pod |-> b.pod, seqno |-> b.seqno, origin |-> o] : b \in best}

\* bootstrapSource taking the highest seqno of both collections instead of
\* preferring the safe states.
bootstrapSourceHighest(ps, r) ==
    LET fromState == Scan(SafeSeqnos(r), ps, 0, {})
        fromRecovered == Scan(r.recovered, ps, 0, {})
    IN  IF /\ fromState # {}
           /\ \A a \in fromState, b \in fromRecovered : a.seqno >= b.seqno
        THEN WithOrigin(fromState, "state")
        ELSE WithOrigin(fromRecovered, "recovered")

\* {} when there is no source yet, else the singleton of the source.
bootstrapSource(ps, r) ==
    LET fromState == Scan(SafeSeqnos(r), ps, 0, {})
        fromRecovered == Scan(r.recovered, ps, 0, {})
    IN  IF fromState # {} THEN WithOrigin(fromState, "state")
        ELSE WithOrigin(fromRecovered, "recovered")


----------------------------------------------------------------------------
(* reconcileRecovery                                                        *)

NoTasks == [p \in AllPods |-> "none"]

\* StateTasks without the check for an existing entry.
StateTasksAll(ps, r) ==
    [p \in AllPods |-> IF p \in ps THEN "fetching" ELSE "none"]

\* errgroup fan-out of getGaleraState: one goroutine per listed pod that has
\* no entry in states.  Each goroutine works on the pod of its own iteration
\* (per-iteration loop variables, Go 1.22).
StateTasks(ps, r) ==
    [p \in AllPods |-> IF p \in ps /\ p \notin DOMAIN r.states THEN "fetching" ELSE "none"]

\* errgroup fan-out of recoverGaleraState: one goroutine per listed pod that
\* has no entry in recovered; its first poll is Recovery.Enable.
RecoveryTasks(ps, r) ==
    [p \in AllPods |-> IF p \in ps /\ p \notin DOMAIN r.recovered THEN "enabling" ELSE "none"]

Failed(t) == t \in {"fetchFailed", "recoveryFailed"}

Finished(t) == t \in {"none", "fetched", "recovered"} \/ Failed(t)

\* errgroup: the first goroutine that returns an error sets the group's
\* error, which is what Wait returns.
FirstError(p) == IF gerr = {} THEN {p} ELSE gerr

\* The invocation returns.
Return(res) ==
    /\ pc' = "done"
    /\ result' = res
    /\ UNCHANGED <<task, gerr>>

\* Dispatch that runs recoverCluster whatever the record says.
DispatchAlwaysRecovering(r, ps) ==
    /\ pc' = "getState"
    /\ task' = StateTasks(ps, r)
    /\ gerr' = {}
    /\ result' = "none"

\* Dispatch that looks only at the bootstrap attempt: restartPods whenever the
\* record is bootstrapping.
DispatchIgnoringRestarted(r, ps) ==
    IF ~isBootstrapping(r)
    THEN /\ pc' = "getState"
         /\ task' = StateTasks(ps, r)
         /\ gerr' = {}
         /\ result' = "none"
    ELSE /\ pc' = "restart"
         /\ UNCHANGED <<task, gerr, result>>

\* reconcileRecovery after the timeout check, for the in-memory record r:
\* recoverCluster when not bootstrapping, else restartPods when the pods are
\* not restarted, else return nil.
Dispatch(r, ps) ==
    IF ~isBootstrapping(r)
    THEN /\ pc' = "getState"
         /\ task' = StateTasks(ps, r)
         /\ gerr' = {}
         /\ result' = "none"
    ELSE IF ~podsRestarted(r)
    THEN /\ pc' = "restart"
         /\ UNCHANGED <<task, gerr, result>>
    ELSE Return("ok")

\* The pods that have an entry in the stored record.
RecordedPods ==
    LET r == newRecoveryStatus(stored) IN (DOMAIN r.states) \cup (DOMAIN r.recovered)

\* reconcileRecovery is invoked: getPods and the agent client set (which may
\* fail), newRecoveryStatus, and the bootstrap timeout check.  The pods the
\* record knows are listed again: pods of the StatefulSet come back under the
\* same name.
Reconcile ==
    /\ pc = "idle"
    /\ \E ps \in PodLists, ok \in BOOLEAN :
        LET r0 == newRecoveryStatus(stored) IN
        /\ RecordedPods \subseteq ps
        /\ pods' = IF ok THEN ps ELSE {}
        /\ IF ~ok
           THEN /\ rs' = ZeroRec
                /\ timedOut' = FALSE
                /\ Return("error")
           ELSE IF bootstrapTimeout(r0, expired)
           THEN /\ rs' = reset(r0)
                /\ timedOut' = TRUE
                /\ pc' = "timeoutReset"
                /\ UNCHANGED <<task, gerr, result>>
           ELSE /\ rs' = r0
                /\ timedOut' = FALSE
                /\ Dispatch(r0, ps)
    /\ UNCHANGED <<stored, expired, src, podKeys, idx, calls, patch, safe, deleted, synced>>
    /\ UNCHANGED podVars
    /\ UNCHANGED histVars

\* TimeoutReset that drops the patch's error and goes on.
TimeoutResetIgnoringError ==
    /\ pc = "timeoutReset"
    /\ \E patched \in BOOLEAN :
        /\ stored' = IF patched THEN ToStatus(rs) ELSE stored
        /\ expired' = IF patched THEN FALSE ELSE expired
        /\ patch' = IF patched THEN "ok" ELSE "failed"
        /\ Dispatch(rs, pods)
    /\ UNCHANGED <<rs, pods, src, podKeys, idx, calls, safe, deleted, synced, timedOut>>
    /\ UNCHANGED podVars
    /\ bootstrapped' = IF patch' = "ok" THEN {} ELSE bootstrapped
    /\ undisabled' = IF patch' = "ok" THEN {} ELSE undisabled

\* resetRecovery after a bootstrap timeout: patch the reset record; on error
\* return it, else go on with the reset record.
TimeoutReset ==
    /\ pc = "timeoutReset"
    /\ \E patched \in BOOLEAN :
        IF patched
        THEN /\ stored' = ToStatus(rs)
             /\ expired' = FALSE
             /\ patch' = "ok"
             /\ Dispatch(rs, pods)
        ELSE /\ patch' = "failed"
             /\ Return("error")
             /\ UNCHANGED <<stored, expired>>
    /\ UNCHANGED <<rs, pods, src, podKeys, idx, calls, safe, deleted, synced, timedOut>>
    /\ UNCHANGED podVars
    /\ bootstrapped' = IF patch' = "ok" THEN {} ELSE bootstrapped
    /\ undisabled' = IF patch' = "ok" THEN {} ELSE undisabled

----------------------------------------------------------------------------
(* recoverCluster: state collection                                         *)

\* GetStateTask that stores the fetched state in a fresh map.
GetStateTaskReplacing(p) ==
    /\ pc = "getState"
    /\ task[p] = "fetching"
    /\ calls' = calls \cup {"ensurePodRunning", "GetGaleraState"}
    /\ \E ok \in BOOLEAN :
        IF ok
        THEN \E ns \in NodeStates :
                /\ rs' = [rs EXCEPT !.states = MapSet(EmptyMap, p, ns)]
                /\ task' = [task EXCEPT ![p] = "fetched"]
                /\ gerr' = gerr
        ELSE /\ task' = [task EXCEPT ![p] = "fetchFailed"]
             /\ gerr' = FirstError(p)
             /\ rs' = rs
    /\ UNCHANGED <<stored, expired, pc, pods, src, podKeys, idx, result, patch, safe,
                   deleted, synced, timedOut>>
    /\ UNCHANGED podVars
    /\ UNCHANGED histVars

\* GetStateTask as with a group made by errgroup.WithContext: the first
\* failure cancels the polls of the goroutines still running.
GetStateTaskCancelling(p) ==
    /\ pc = "getState"
    /\ task[p] = "fetching"
    /\ calls' = calls \cup {"ensurePodRunning", "GetGaleraState"}
    /\ \E ok \in BOOLEAN :
        IF ok
        THEN \E ns \in NodeStates :
                /\ rs' = setState(rs, p, ns)
                /\ task' = [task EXCEPT ![p] = "fetched"]
                /\ gerr' = gerr
        ELSE /\ task' = [q \in AllPods |->
                            IF task[q] = "fetching" THEN "fetchFailed" ELSE task[q]]
             /\ gerr' = FirstError(p)
             /\ rs' = rs
    /\ UNCHANGED <<stored, expired, pc, pods, src, podKeys, idx, result, patch, safe,
                   deleted, synced, timedOut>>
    /\ UNCHANGED podVars
    /\ UNCHANGED histVars

\* GetStateTask whose write is not serialised with its siblings': it puts
\* its entry into the map as the map was when the phase began.
GetStateTaskStaleWrite(p) ==
    /\ pc = "getState"
    /\ task[p] = "fetching"
    /\ calls' = calls \cup {"ensurePodRunning", "GetGaleraState"}
    /\ \E ok \in BOOLEAN :
        IF ok
        THEN \E ns \in NodeStates :
                /\ rs' = [rs EXCEPT !.states = MapSet(newRecoveryStatus(stored).states, p, ns)]
                /\ task' = [task EXCEPT ![p] = "fetched"]
                /\ gerr' = gerr
        ELSE /\ task' = [task EXCEPT ![p] = "fetchFailed"]
             /\ gerr' = FirstError(p)
             /\ rs' = rs
    /\ UNCHANGED <<stored, expired, pc, pods, src, podKeys, idx, result, patch, safe,
                   deleted, synced, timedOut>>
    /\ UNCHANGED podVars
    /\ UNCHANGED histVars

\* One goroutine of getGaleraState ends its poll: ensurePodRunning and
\* GetGaleraState until success (the state is stored under the pod's name) or
\* until the pod recovery deadline.
GetStateTask(p) ==
    /\ pc = "getState"
    /\ task[p] = "fetching"
    /\ calls' = calls \cup {"ensurePodRunning", "GetGaleraState"}
    /\ \E ok \in BOOLEAN :
        IF ok
        THEN \E ns \in NodeStates :
                /\ rs' = setState(rs, p, ns)
                /\ task' = [task EXCEPT ![p] = "fetched"]
                /\ gerr' = gerr
        ELSE /\ task' = [task EXCEPT ![p] = "fetchFailed"]
             /\ gerr' = FirstError(p)
             /\ rs' = rs
    /\ UNCHANGED <<stored, expired, pc, pods, src, podKeys, idx, result, patch, safe,
                   deleted, synced, timedOut>>
    /\ UNCHANGED podVars
    /\ UNCHANGED histVars

\* GetStateJoin that runs the recovery-mode pass whatever the selection gave.
GetStateJoinAlwaysRecovering ==
    /\ pc = "getState"
    /\ \A p \in AllPods : Finished(task[p])
    /\ \E patched \in BOOLEAN :
        /\ stored' = IF patched THEN ToStatus(rs) ELSE stored
        /\ patch' = IF patched THEN "ok" ELSE "failed"
        /\ IF ~patched \/ gerr # {}
           THEN /\ Return("error")
                /\ src' = src
           ELSE /\ src' = bootstrapSource(pods, rs)
                /\ result' = result
                /\ gerr' = {}
                /\ pc' = "recover"
                /\ task' = RecoveryTasks(pods, rs)
    /\ UNCHANGED <<expired, rs, pods, podKeys, idx, calls, safe, deleted, synced, timedOut>>
    /\ UNCHANGED podVars
    /\ UNCHANGED histVars

\* GetStateJoin that returns an error when the selection gives no source.
GetStateJoinNoSourceError ==
    /\ pc = "getState"
    /\ \A p \in AllPods : Finished(task[p])
    /\ \E patched \in BOOLEAN :
        /\ stored' = IF patched THEN ToStatus(rs) ELSE stored
        /\ patch' = IF patched THEN "ok" ELSE "failed"
        /\ IF ~patched \/ gerr # {}
           THEN /\ Return("error")
                /\ src' = src
           ELSE LET s == bootstrapSource(pods, rs) IN
                /\ src' = s
                /\ IF s # {}
                   THEN /\ pc' = "bootstrap"
                        /\ task' = NoTasks
                        /\ gerr' = {}
                        /\ result' = result
                   ELSE Return("error")
    /\ UNCHANGED <<expired, rs, pods, podKeys, idx, calls, safe, deleted, synced, timedOut>>
    /\ UNCHANGED podVars
    /\ UNCHANGED histVars

\* GetStateJoin that returns the collection's error before the patch.
GetStateJoinErrorFirst ==
    /\ pc = "getState"
    /\ \A p \in AllPods : Finished(task[p])
    /\ \E patched \in BOOLEAN :
        IF gerr # {}
        THEN /\ Return("error")
             /\ UNCHANGED <<stored, patch, src>>
        ELSE /\ stored' = IF patched THEN ToStatus(rs) ELSE stored
             /\ patch' = IF patched THEN "ok" ELSE "failed"
             /\ IF ~patched
                THEN /\ Return("error")
                     /\ src' = src
                ELSE LET s == bootstrapSource(pods, rs) IN
                     /\ src' = s
                     /\ result' = result
                     /\ gerr' = {}
                     /\ IF s # {}
                        THEN /\ pc' = "bootstrap"
                             /\ task' = NoTasks
                        ELSE /\ pc' = "recover"
                             /\ task' = RecoveryTasks(pods, rs)
    /\ UNCHANGED <<expired, rs, pods, podKeys, idx, calls, safe, deleted, synced, timedOut>>
    /\ UNCHANGED podVars
    /\ UNCHANGED histVars

\* GetStateJoin that drops the error of the status patch and selects from
\* states that may not be stored.
GetStateJoinIgnoringPatchError ==
    /\ pc = "getState"
    /\ \A p \in AllPods : Finished(task[p])
    /\ \E patched \in BOOLEAN :
        /\ stored' = IF patched THEN ToStatus(rs) ELSE stored
        /\ patch' = IF patched THEN "ok" ELSE "failed"
        /\ IF gerr # {}
           THEN /\ Return("error")
                /\ src' = src
           ELSE LET s == bootstrapSource(pods, rs) IN
                /\ src' = s
                /\ result' = result
                /\ gerr' = {}
                /\ IF s # {}
                   THEN /\ pc' = "bootstrap"
                        /\ task' = NoTasks
                   ELSE /\ pc' = "recover"
                        /\ task' = RecoveryTasks(pods, rs)
    /\ UNCHANGED <<expired, rs, pods, podKeys, idx, calls, safe, deleted, synced, timedOut>>
    /\ UNCHANGED podVars
    /\ UNCHANGED histVars

\* g.Wait() returned: patch the status whatever the outcome, return an error
\* when the collection or the patch failed, else select the bootstrap source:
\* bootstrap from it, or start the recovery-mode pass when there is none.
GetStateJoin ==
    /\ pc = "getState"
    /\ \A p \in AllPods : Finished(task[p])
    /\ \E patched \in BOOLEAN :
        /\ stored' = IF patched THEN ToStatus(rs) ELSE stored
        /\ patch' = IF patched THEN "ok" ELSE "failed"
        /\ IF ~patched \/ gerr # {}
           THEN /\ Return("error")
                /\ src' = src
           ELSE LET s == bootstrapSource(pods, rs) IN
                /\ src' = s
                /\ result' = result
                /\ gerr' = {}
                /\ IF s # {}
                   THEN /\ pc' = "bootstrap"
                        /\ task' = NoTasks
                   ELSE /\ pc' = "recover"
                        /\ task' = RecoveryTasks(pods, rs)
    /\ UNCHANGED <<expired, rs, pods, podKeys, idx, calls, safe, deleted, synced, timedOut>>
    /\ UNCHANGED podVars
    /\ UNCHANGED histVars

----------------------------------------------------------------------------
(* recoverCluster: recovery mode                                            *)

\* One goroutine of recoverGaleraState ends its first poll: Recovery.Enable.
RecoveryEnable(p) ==
    /\ pc = "recover"
    /\ task[p] = "enabling"
    /\ calls' = calls \cup {"ensurePodRunning", "Recovery.Enable"}
    /\ \E ok \in BOOLEAN :
        /\ task' = [task EXCEPT ![p] = IF ok THEN "starting" ELSE "recoveryFailed"]
        /\ gerr' = IF ok THEN gerr ELSE FirstError(p)
    /\ UNCHANGED <<stored, expired, pc, rs, pods, src, podKeys, idx, result, patch, safe,
                   deleted, synced, timedOut>>
    /\ UNCHANGED podVars
    /\ UNCHANGED histVars

\* RecoveryStart that goes on to Recovery.Disable when Recovery.Start failed.
RecoveryStartContinuing(p) ==
    /\ pc = "recover"
    /\ task[p] = "starting"
    /\ calls' = calls \cup {"Recovery.Start"}
    /\ \E ok \in BOOLEAN :
        /\ task' = [task EXCEPT ![p] = "disabling"]
        /\ gerr' = gerr
        /\ IF ok
           THEN \E s \in Seqnos : rs' = setRecovered(rs, p, s)
           ELSE rs' = rs
    /\ UNCHANGED <<stored, expired, pc, pods, src, podKeys, idx, result, patch, safe,
                   deleted, synced, timedOut>>
    /\ UNCHANGED podVars
    /\ undisabled' = IF p \in DOMAIN rs'.recovered THEN undisabled \cup {p}
                                                  ELSE undisabled
    /\ UNCHANGED bootstrapped

\* Its second poll: Recovery.Start, whose sequence number is stored under the
\* pod's name.
RecoveryStart(p) ==
    /\ pc = "recover"
    /\ task[p] = "starting"
    /\ calls' = calls \cup {"Recovery.Start"}
    /\ \E ok \in BOOLEAN :
        IF ok
        THEN \E s \in Seqnos :
                /\ rs' = setRecovered(rs, p, s)
                /\ task' = [task EXCEPT ![p] = "disabling"]
                /\ gerr' = gerr
        ELSE /\ task' = [task EXCEPT ![p] = "recoveryFailed"]
             /\ gerr' = FirstError(p)
             /\ rs' = rs
    /\ UNCHANGED <<stored, expired, pc, pods, src, podKeys, idx, result, patch, safe,
                   deleted, synced, timedOut>>
    /\ UNCHANGED podVars
    /\ undisabled' = IF p \in DOMAIN rs'.recovered THEN undisabled \cup {p}
                                                  ELSE undisabled
    /\ UNCHANGED bootstrapped

\* Its third poll: Recovery.Disable.
RecoveryDisable(p) ==
    /\ pc = "recover"
    /\ task[p] = "disabling"
    /\ calls' = calls \cup {"Recovery.Disable"}
    /\ \E ok \in BOOLEAN :
        /\ task' = [task EXCEPT ![p] = IF ok THEN "recovered" ELSE "recoveryFailed"]
        /\ gerr' = IF ok THEN gerr ELSE FirstError(p)
    /\ UNCHANGED <<stored, expired, pc, rs, pods, src, podKeys, idx, result, patch, safe,
                   deleted, synced, timedOut>>
    /\ UNCHANGED podVars
    /\ undisabled' = IF task'[p] = "recovered" THEN undisabled \ {p} ELSE undisabled
    /\ UNCHANGED bootstrapped

\* RecoveryJoin that drops the error of the recovery-mode pass and selects
\* from what was recovered.
RecoveryJoinIgnoringError ==
    /\ pc = "recover"
    /\ \A p \in AllPods : Finished(task[p])
    /\ \E patched \in BOOLEAN :
        /\ stored' = IF patched THEN ToStatus(rs) ELSE stored
        /\ patch' = IF patched THEN "ok" ELSE "failed"
        /\ IF ~patched
           THEN /\ Return("error")
                /\ src' = src
           ELSE LET s == bootstrapSource(pods, rs) IN
                /\ src' = s
                /\ IF s = {}
                   THEN Return("error")
                   ELSE /\ pc' = "bootstrap"
                        /\ task' = NoTasks
                        /\ gerr' = {}
                        /\ result' = result
    /\ UNCHANGED <<expired, rs, pods, podKeys, idx, calls, safe, deleted, synced, timedOut>>
    /\ UNCHANGED podVars
    /\ UNCHANGED histVars

\* RecoveryJoin that hands whatever the second selection returned to
\* bootstrap.
RecoveryJoinUncheckedSource ==
    /\ pc = "recover"
    /\ \A p \in AllPods : Finished(task[p])
    /\ \E patched \in BOOLEAN :
        /\ stored' = IF patched THEN ToStatus(rs) ELSE stored
        /\ patch' = IF patched THEN "ok" ELSE "failed"
        /\ IF ~patched \/ gerr # {}
           THEN /\ Return("error")
                /\ src' = src
           ELSE /\ src' = bootstrapSource(pods, rs)
                /\ pc' = "bootstrap"
                /\ task' = NoTasks
                /\ gerr' = {}
                /\ result' = result
    /\ UNCHANGED <<expired, rs, pods, podKeys, idx, calls, safe, deleted, synced, timedOut>>
    /\ UNCHANGED podVars
    /\ UNCHANGED histVars

\* g.Wait() returned: patch the status whatever the outcome, return an error
\* when the recovery or the patch failed, else select again; no source is an
\* error here.
RecoveryJoin ==
    /\ pc = "recover"
    /\ \A p \in AllPods : Finished(task[p])
    /\ \E patched \in BOOLEAN :
        /\ stored' = IF patched THEN ToStatus(rs) ELSE stored
        /\ patch' = IF patched THEN "ok" ELSE "failed"
        /\ IF ~patched \/ gerr # {}
           THEN /\ Return("error")
                /\ src' = src
           ELSE LET s == bootstrapSource(pods, rs) IN
                /\ src' = s
                /\ IF s = {}
                   THEN Return("error")
                   ELSE /\ pc' = "bootstrap"
                        /\ task' = NoTasks
                        /\ gerr' = {}
                        /\ result' = result
    /\ UNCHANGED <<expired, rs, pods, podKeys, idx, calls, safe, deleted, synced, timedOut>>
    /\ UNCHANGED podVars
    /\ UNCHANGED histVars

----------------------------------------------------------------------------
(* bootstrap                                                                *)

\* Bootstrap that records the attempt whatever the outcome of the poll.
BootstrapRecordingFailure ==
    /\ pc = "bootstrap"
    /\ \E s \in src, ok \in BOOLEAN :
        /\ calls' = calls \cup {"ensurePodRunning", "Bootstrap.Enable"}
        /\ rs' = setBootstrapping(rs, s.pod)
        /\ IF ok
           THEN /\ pc' = "bootstrapPatch"
                /\ UNCHANGED <<task, gerr, result>>
           ELSE Return("error")
    /\ UNCHANGED <<stored, expired, pods, src, podKeys, idx, patch, safe, deleted, synced,
                   timedOut>>
    /\ UNCHANGED podVars
    /\ bootstrapped' = IF pc' = "bootstrapPatch" THEN bootstrapped \cup rs'.bootstrap
                                              ELSE bootstrapped
    /\ UNCHANGED undisabled

\* The poll of bootstrap: ensurePodRunning and Bootstrap.Enable on the
\* source's pod until success or the bootstrap deadline; on success the
\* attempt is recorded with the current time.
Bootstrap ==
    /\ pc = "bootstrap"
    /\ \E s \in src, ok \in BOOLEAN :
        /\ calls' = calls \cup {"ensurePodRunning", "Bootstrap.Enable"}
        /\ IF ok
           THEN /\ rs' = setBootstrapping(rs, s.pod)
                /\ pc' = "bootstrapPatch"
                /\ UNCHANGED <<task, gerr, result>>
           ELSE /\ rs' = rs
                /\ Return("error")
    /\ UNCHANGED <<stored, expired, pods, src, podKeys, idx, patch, safe, deleted, synced,
                   timedOut>>
    /\ UNCHANGED podVars
    /\ bootstrapped' = IF pc' = "bootstrapPatch" THEN bootstrapped \cup rs'.bootstrap
                                              ELSE bootstrapped
    /\ UNCHANGED undisabled

\* BootstrapPatch whose error is dropped: reconcileRecovery goes on to
\* restartPods with a status that may lack the attempt.
BootstrapPatchIgnoringError ==
    /\ pc = "bootstrapPatch"
    /\ \E patched \in BOOLEAN :
        /\ stored' = IF patched THEN ToStatus(rs) ELSE stored
        /\ expired' = IF patched THEN FALSE ELSE expired
        /\ patch' = IF patched THEN "ok" ELSE "failed"
        /\ IF ~podsRestarted(rs)
           THEN /\ pc' = "restart"
                /\ UNCHANGED <<task, gerr, result>>
           ELSE Return("ok")
    /\ UNCHANGED <<rs, pods, src, podKeys, idx, calls, safe, deleted, synced, timedOut>>
    /\ UNCHANGED podVars
    /\ UNCHANGED histVars

\* recoverCluster patches the status after bootstrap and returns the patch's
\* error; on success reconcileRecovery goes on to restartPods unless the
\* record says the pods are restarted.
BootstrapPatch ==
    /\ pc = "bootstrapPatch"
    /\ \E patched \in BOOLEAN :
        IF patched
        THEN /\ stored' = ToStatus(rs)
             /\ expired' = FALSE
             /\ patch' = "ok"
             /\ IF ~podsRestarted(rs)
                THEN /\ pc' = "restart"
                     /\ UNCHANGED <<task, gerr, result>>
                ELSE Return("ok")
        ELSE /\ patch' = "failed"
             /\ Return("error")
             /\ UNCHANGED <<stored, expired>>
    /\ UNCHANGED <<rs, pods, src, podKeys, idx, calls, safe, deleted, synced, timedOut>>
    /\ UNCHANGED podVars
    /\ UNCHANGED histVars

----------------------------------------------------------------------------
(* restartPods                                                              *)

\* OtherKeys without the skip of the bootstrap pod.
RECURSIVE OtherKeysAll(_, _)
OtherKeysAll(bp, i) ==
    IF i >= NumPods THEN <<>>
    ELSE <<i>> \o OtherKeysAll(bp, i + 1)

\* The loop over the replicas: every pod name but the bootstrap pod's, by
\* ascending index.
RECURSIVE OtherKeys(_, _)
OtherKeys(bp, i) ==
    IF i >= NumPods THEN <<>>
    ELSE IF i = bp THEN OtherKeys(bp, i + 1)
    ELSE <<i>> \o OtherKeys(bp, i + 1)

\* podKeys: the bootstrap pod, then the others.
PodKeysFor(bp) == <<bp>> \o OtherKeys(bp, 0)

\* The bootstrap pod in the MariaDB status, which restartPods reads.
StatusBootstrap == newRecoveryStatus(stored).bootstrap

\* RestartCheck that asks the bootstrap pod for its state and starts the loop
\* whatever the answer's safe-to-bootstrap flag.
RestartCheckIgnoringSafe ==
    /\ pc = "restart"
    /\ IF StatusBootstrap = {}
       THEN /\ Return("error")
            /\ UNCHANGED <<rs, podKeys, idx, calls, safe>>
       ELSE \E bp \in StatusBootstrap, answer \in {"error", "unsafe", "safe"} :
            /\ calls' = calls \cup {"GetGaleraState"}
            /\ safe' = answer
            /\ IF answer = "error"
               THEN /\ Return("error")
                    /\ UNCHANGED <<rs, podKeys, idx>>
               ELSE /\ podKeys' = PodKeysFor(bp)
                    /\ idx' = 1
                    /\ pc' = "delete"
                    /\ UNCHANGED <<rs, task, gerr, result>>
    /\ UNCHANGED <<stored, expired, pods, src, patch, deleted, synced, timedOut>>
    /\ UNCHANGED podVars
    /\ UNCHANGED histVars

\* RestartCheck that answers a status without a bootstrap pod by resetting
\* the record.
RestartCheckResetting ==
    /\ pc = "restart"
    /\ IF StatusBootstrap = {}
       THEN /\ rs' = reset(rs)
            /\ pc' = "unsafeReset"
            /\ UNCHANGED <<task, gerr, result, podKeys, idx, calls, safe>>
       ELSE \E bp \in StatusBootstrap, answer \in {"error", "unsafe", "safe"} :
            /\ calls' = calls \cup {"GetGaleraState"}
            /\ safe' = answer
            /\ IF answer = "error"
               THEN /\ Return("error")
                    /\ UNCHANGED <<rs, podKeys, idx>>
               ELSE IF answer = "unsafe"
               THEN /\ rs' = reset(rs)
                    /\ pc' = "unsafeReset"
                    /\ UNCHANGED <<task, gerr, result, podKeys, idx>>
               ELSE /\ podKeys' = PodKeysFor(bp)
                    /\ idx' = 1
                    /\ pc' = "delete"
                    /\ UNCHANGED <<rs, task, gerr, result>>
    /\ UNCHANGED <<stored, expired, pods, src, patch, deleted, synced, timedOut>>
    /\ UNCHANGED podVars
    /\ UNCHANGED histVars

\* restartPods up to the loop: without a bootstrap pod in the status it is an
\* error; else the bootstrap pod's agent is asked for its state: an error is
\* returned, a pod no longer safe to bootstrap resets the record, a safe one
\* starts the loop.
RestartCheck ==
    /\ pc = "restart"
    /\ IF StatusBootstrap = {}
       THEN /\ Return("error")
            /\ UNCHANGED <<rs, podKeys, idx, calls, safe>>
       ELSE \E bp \in StatusBootstrap, answer \in {"error", "unsafe", "safe"} :
            /\ calls' = calls \cup {"GetGaleraState"}
            /\ safe' = answer
            /\ IF answer = "error"
               THEN /\ Return("error")
                    /\ UNCHANGED <<rs, podKeys, idx>>
               ELSE IF answer = "unsafe"
               THEN /\ rs' = reset(rs)
                    /\ pc' = "unsafeReset"
                    /\ UNCHANGED <<task, gerr, result, podKeys, idx>>
               ELSE /\ podKeys' = PodKeysFor(bp)
                    /\ idx' = 1
                    /\ pc' = "delete"
                    /\ UNCHANGED <<rs, task, gerr, result>>
    /\ UNCHANGED <<stored, expired, pods, src, patch, deleted, synced, timedOut>>
    /\ UNCHANGED podVars
    /\ UNCHANGED histVars

\* UnsafeReset that starts the recovery over inside the invocation instead
\* of returning.
UnsafeResetAndRetry ==
    /\ pc = "unsafeReset"
    /\ \E patched \in BOOLEAN :
        IF patched
        THEN /\ stored' = ToStatus(rs)
             /\ expired' = FALSE
             /\ patch' = "ok"
             /\ Dispatch(rs, pods)
        ELSE /\ patch' = "failed"
             /\ Return("error")
             /\ UNCHANGED <<stored, expired>>
    /\ UNCHANGED <<rs, pods, src, podKeys, idx, calls, safe, deleted, synced, timedOut>>
    /\ UNCHANGED podVars
    /\ bootstrapped' = IF patch' = "ok" THEN {} ELSE bootstrapped
    /\ undisabled' = IF patch' = "ok" THEN {} ELSE undisabled

\* resetRecovery in restartPods: patch the reset record and return the
\* patch's error.
UnsafeReset ==
    /\ pc = "unsafeReset"
    /\ \E patched \in BOOLEAN :
        IF patched
        THEN /\ stored' = ToStatus(rs)
             /\ expired' = FALSE
             /\ patch' = "ok"
             /\ Return("ok")
        ELSE /\ patch' = "failed"
             /\ Return("error")
             /\ UNCHANGED <<stored, expired>>
    /\ UNCHANGED <<rs, pods, src, podKeys, idx, calls, safe, deleted, synced, timedOut>>
    /\ UNCHANGED podVars
    /\ bootstrapped' = IF patch' = "ok" THEN {} ELSE bootstrapped
    /\ undisabled' = IF patch' = "ok" THEN {} ELSE undisabled

\* RestartDelete that answers a failed delete poll by resetting the record.
RestartDeleteResetting ==
    /\ pc = "delete"
    /\ \E ok \in BOOLEAN :
        IF ok
        THEN /\ deleted' = Append(deleted, podKeys[idx])
             /\ calls' = calls \cup {"Delete"}
             /\ pc' = "sync"
             /\ UNCHANGED <<stored, rs, task, gerr, result>>
        ELSE /\ rs' = reset(rs)
             /\ stored' = ToStatus(reset(rs))
             /\ Return("error")
             /\ UNCHANGED <<deleted, calls>>
    /\ UNCHANGED <<expired, pods, src, podKeys, idx, patch, safe, synced, timedOut>>
    /\ UNCHANGED podVars
    /\ UNCHANGED histVars

\* pollUntilPodDeleted for podKeys[idx]: the pod is deleted, or the poll runs
\* into the sync deadline.
RestartDelete ==
    /\ pc = "delete"
    /\ \E ok \in BOOLEAN :
        IF ok
        THEN /\ deleted' = Append(deleted, podKeys[idx])
             /\ calls' = calls \cup {"Delete"}
             /\ pc' = "sync"
             /\ UNCHANGED <<task, gerr, result>>
        ELSE /\ Return("error")
             /\ UNCHANGED <<deleted, calls>>
    /\ UNCHANGED <<stored, expired, rs, pods, src, podKeys, idx, patch, safe, synced, timedOut>>
    /\ UNCHANGED podVars
    /\ UNCHANGED histVars

\* RestartSync that goes on with the loop when the sync poll fails.
RestartSyncIgnoringError ==
    /\ pc = "sync"
    /\ calls' = calls \cup {"IsPodSynced"}
    /\ \E ok \in BOOLEAN :
        /\ synced' = IF ok THEN Append(synced, podKeys[idx]) ELSE synced
        /\ IF idx < Len(podKeys)
           THEN /\ idx' = idx + 1
                /\ pc' = "delete"
           ELSE /\ idx' = idx
                /\ pc' = "restarted"
        /\ UNCHANGED <<task, gerr, result>>
    /\ UNCHANGED <<stored, expired, rs, pods, src, podKeys, patch, safe, deleted, timedOut>>
    /\ UNCHANGED podVars
    /\ UNCHANGED histVars

\* pollUntilPodSynced for podKeys[idx]: the pod reports synced and the loop
\* goes on, or the poll runs into the sync deadline.
RestartSync ==
    /\ pc = "sync"
    /\ calls' = calls \cup {"IsPodSynced"}
    /\ \E ok \in BOOLEAN :
        IF ok
        THEN /\ synced' = Append(synced, podKeys[idx])
             /\ IF idx < Len(podKeys)
                THEN /\ idx' = idx + 1
                     /\ pc' = "delete"
                ELSE /\ idx' = idx
                     /\ pc' = "restarted"
             /\ UNCHANGED <<task, gerr, result>>
        ELSE /\ Return("error")
             /\ UNCHANGED <<idx, synced>>
    /\ UNCHANGED <<stored, expired, rs, pods, src, podKeys, patch, safe, deleted, timedOut>>
    /\ UNCHANGED podVars
    /\ UNCHANGED histVars

\* RestartFinish with the two statements swapped: the patch comes before
\* setPodsRestarted(true).
RestartFinishPatchFirst ==
    /\ pc = "restarted"
    /\ rs' = setPodsRestarted(rs, TRUE)
    /\ \E patched \in BOOLEAN :
        IF patched
        THEN /\ stored' = ToStatus(rs)
             /\ patch' = "ok"
             /\ Return("ok")
        ELSE /\ stored' = stored
             /\ patch' = "failed"
             /\ Return("error")
    /\ UNCHANGED <<expired, pods, src, podKeys, idx, calls, safe, deleted, synced, timedOut>>
    /\ UNCHANGED podVars
    /\ UNCHANGED histVars

\* RestartFinish that takes the bootstrap attempt out of the record when it
\* sets the flag.
RestartFinishClearingBootstrap ==
    /\ pc = "restarted"
    /\ rs' = [setPodsRestarted(rs, TRUE) EXCEPT !.bootstrap = {}]
    /\ \E patched \in BOOLEAN :
        IF patched
        THEN /\ stored' = ToStatus(rs')
             /\ patch' = "ok"
             /\ Return("ok")
        ELSE /\ stored' = stored
             /\ patch' = "failed"
             /\ Return("error")
    /\ UNCHANGED <<expired, pods, src, podKeys, idx, calls, safe, deleted, synced, timedOut>>
    /\ UNCHANGED podVars
    /\ UNCHANGED histVars

\* After the loop: setPodsRestarted(true) and the status patch, whose error
\* is returned.
RestartFinish ==
    /\ pc = "restarted"
    /\ rs' = setPodsRestarted(rs, TRUE)
    /\ \E patched \in BOOLEAN :
        IF patched
        THEN /\ stored' = ToStatus(rs')
             /\ patch' = "ok"
             /\ Return("ok")
        ELSE /\ stored' = stored
             /\ patch' = "failed"
             /\ Return("error")
    /\ UNCHANGED <<expired, pods, src, podKeys, idx, calls, safe, deleted, synced, timedOut>>
    /\ UNCHANGED podVars
    /\ UNCHANGED histVars

----------------------------------------------------------------------------
(* Environment                                                              *)

\* No invocation is running: no in-memory record, no locals, no history.
NoInvocation ==
    /\ rs = ZeroRec
    /\ pods = {}
    /\ task = NoTasks
    /\ gerr = {}
    /\ src = {}
    /\ podKeys = <<>>
    /\ idx = 0
    /\ result = "none"
    /\ calls = {}
    /\ patch = "none"
    /\ safe = "unknown"
    /\ deleted = <<>>
    /\ synced = <<>>
    /\ timedOut = FALSE

\* The invocation's in-memory record, locals and history are dropped.
Forget ==
    /\ rs' = ZeroRec
    /\ pods' = {}
    /\ task' = NoTasks
    /\ gerr' = {}
    /\ src' = {}
    /\ podKeys' = <<>>
    /\ idx' = 0
    /\ result' = "none"
    /\ calls' = {}
    /\ patch' = "none"
    /\ safe' = "unknown"
    /\ deleted' = <<>>
    /\ synced' = <<>>
    /\ timedOut' = FALSE

\* The invocation is over: its in-memory record and locals are gone, and the
\* control loop will invoke reconcileRecovery again.
Requeue ==
    /\ pc = "done"
    /\ pc' = "idle"
    /\ Forget
    /\ UNCHANGED <<stored, expired>>
    /\ UNCHANGED podVars
    /\ undisabled' = undisabled \cap DOMAIN newRecoveryStatus(stored).recovered
    /\ UNCHANGED bootstrapped

\* The controller process dies in the middle of an invocation; only the
\* status in the API server survives.
Crash ==
    /\ pc \notin {"idle", "done", "select", "selected"}
    /\ pc' = "idle"
    /\ Forget
    /\ UNCHANGED <<stored, expired>>
    /\ UNCHANGED podVars
    /\ undisabled' = undisabled \cap DOMAIN newRecoveryStatus(stored).recovered
    /\ UNCHANGED bootstrapped

\* The clock passes the deadline of the stored bootstrap attempt.
Tick ==
    /\ pc = "idle"
    /\ StatusBootstrap # {}
    /\ ~expired
    /\ expired' = TRUE
    /\ UNCHANGED <<stored, pc, rs, pods, task, gerr, src, podKeys, idx, result, calls,
                   patch, safe, deleted, synced, timedOut>>
    /\ UNCHANGED podVars
    /\ UNCHANGED histVars

----------------------------------------------------------------------------

Init ==
    /\ stored = {}
    /\ expired = FALSE
    /\ pc = "idle"
    /\ NoInvocation
    /\ NoPodView
    /\ NoHistory

Next ==
    \/ Reconcile
    \/ TimeoutReset
    \/ \E p \in AllPods : GetStateTask(p)
    \/ GetStateJoin
    \/ \E p \in AllPods : RecoveryEnable(p)
    \/ \E p \in AllPods : RecoveryStart(p)
    \/ \E p \in AllPods : RecoveryDisable(p)
    \/ RecoveryJoin
    \/ Bootstrap
    \/ BootstrapPatch
    \/ RestartCheck
    \/ UnsafeReset
    \/ RestartDelete
    \/ RestartSync
    \/ RestartFinish
    \/ Requeue
    \/ Crash
    \/ Tick

Spec == Init /\ [][Next]_vars

----------------------------------------------------------------------------
(* Fair scheduling                                                          *)

\* The control loop invokes reconcileRecovery again and again, and inside an
\* invocation every poll ends (by success or by its deadline), every patch
\* returns and every join is reached: some step is always taken.
SpecLive == Init /\ [][Next]_vars /\ WF_vars(Next)

----------------------------------------------------------------------------

(* reconcileRecovery on a status it did not write itself                    *)

\* Statuses handed to the first invocation: any bootstrap attempt and any
\* podsRestarted flag, no pod entries.
InputStatuses ==
    {ToStatus(r) : r \in [states : {EmptyMap}, recovered : {EmptyMap},
                          bootstrap : {{}} \cup {{p} : p \in AllPods},
                          podsRestarted : BOOLEAN]}

InitAny ==
    /\ stored \in InputStatuses
    /\ expired = FALSE
    /\ pc = "idle"
    /\ NoInvocation
    /\ NoPodView
    /\ NoHistory

SpecAny == InitAny /\ [][Next]_vars

----------------------------------------------------------------------------
(* restartPods called on any status                                         *)

\* restartPods is entered with the record of a status that reconcileRecovery
\* may not have written: with or without a bootstrap pod.
InitRestart ==
    /\ stored \in InputStatuses
    /\ expired = FALSE
    /\ pc = "restart"
    /\ rs = newRecoveryStatus(stored)
    /\ pods = AllPods
    /\ task = NoTasks
    /\ gerr = {}
    /\ src = {}
    /\ podKeys = <<>>
    /\ idx = 0
    /\ result = "none"
    /\ calls = {}
    /\ patch = "none"
    /\ safe = "unknown"
    /\ deleted = <<>>
    /\ synced = <<>>
    /\ timedOut = FALSE
    /\ NoPodView
    /\ NoHistory

SpecRestart == InitRestart /\ [][Next]_vars

----------------------------------------------------------------------------

(* The bootstrap-source selection on its own                                *)

SelSeqnos == 0 .. MaxSeqno

SelNodeStates == [seqno : SelSeqnos, safe : BOOLEAN]

\* The maps with keys among D and values in V.
Maps(D, V) == UNION {[X -> V] : X \in SUBSET D}

\* Any record over the listed pods is handed to the selection.
InitSel ==
    /\ pc = "select"
    /\ pods \in PodLists
    /\ rs \in [states : Maps(pods, SelNodeStates), recovered : Maps(pods, SelSeqnos),
               bootstrap : {{}}, podsRestarted : {FALSE}]
    /\ stored = {}
    /\ expired = FALSE
    /\ task = NoTasks
    /\ gerr = {}
    /\ src = {}
    /\ podKeys = <<>>
    /\ idx = 0
    /\ result = "none"
    /\ calls = {}
    /\ patch = "none"
    /\ safe = "unknown"
    /\ deleted = <<>>
    /\ synced = <<>>
    /\ timedOut = FALSE
    /\ NoPodView
    /\ NoHistory

\* src, err := rs.bootstrapSource(pods, logger)
SelectSource ==
    /\ pc = "select"
    /\ src' = bootstrapSource(pods, rs)
    /\ pc' = "selected"
    /\ UNCHANGED <<stored, expired, rs, pods, task, gerr, podKeys, idx, result, calls,
                   patch, safe, deleted, synced, timedOut>>
    /\ UNCHANGED podVars
    /\ UNCHANGED histVars

NextSel == SelectSource

SpecSel == InitSel /\ [][NextSel]_vars

----------------------------------------------------------------------------
(* Properties                                                               *)

StatusRecord == newRecoveryStatus(stored)

\* An invocation starts in this step.
Invoked == pc = "idle" /\ pc' # "idle"

\* C1: an invocation that finds the stored bootstrap attempt timed out clears
\* the in-memory record and patches the status with it before anything else:
\* while the reset is not patched no collaborator was called and no pod
\* deleted; the collection starts only from a status that holds no record;
\* and when the patch fails the invocation returns an error having called
\* nothing.  (An invocation whose getPods fails returns an error before it
\* reads the record.)
C1_TimeoutResetFirst ==
    /\ [](pc = "timeoutReset" =>
            /\ timedOut
            /\ rs = ZeroRec
            /\ calls = {}
            /\ deleted = <<>>)
    /\ [][/\ (Invoked /\ StatusBootstrap # {} /\ expired) =>
                \/ pc' = "timeoutReset" /\ timedOut'
                \/ pc' = "done" /\ result' = "error" /\ calls' = {} /\ stored' = stored
          /\ (pc = "timeoutReset" /\ pc' \notin {"timeoutReset", "idle"}) =>
                \/ /\ patch' = "ok"
                   /\ stored' = {}
                   /\ rs' = ZeroRec
                   /\ pc' = "getState"
                   /\ calls' = {}
                   /\ deleted' = <<>>
                \/ /\ patch' = "failed"
                   /\ stored' = stored
                   /\ pc' = "done"
                   /\ result' = "error"
                   /\ calls' = {}
                   /\ deleted' = <<>>]_vars

\* C1 witness: the reset of a timed-out attempt was patched and the
\* collection has started from the empty record.
C1_Witness ==
    /\ timedOut
    /\ pc = "getState"
    /\ patch = "ok"
    /\ stored = {}
    /\ \E p \in AllPods : task[p] = "fetching"

\* The collection to select from: the seqnos of the safe states if there is
\* one, else the recovered seqnos.
UsedCollection(r) ==
    LET safePods == {p \in DOMAIN r.states : r.states[p].safe} IN
    IF safePods # {}
    THEN [p \in safePods |-> r.states[p].seqno]
    ELSE r.recovered

\* C2: when some recorded state is safe to bootstrap, the selected source is
\* a pod whose recorded state is safe to bootstrap and it is taken from
\* states, whatever the recovered seqnos and the seqnos of unsafe states.
C2_SafeStatePreferred ==
    (pc = "selected" /\ \E p \in DOMAIN rs.states : rs.states[p].safe) =>
        /\ src # {}
        /\ \A s \in src :
            /\ s.origin = "state"
            /\ s.pod \in DOMAIN rs.states
            /\ rs.states[s.pod].safe
            /\ s.seqno = rs.states[s.pod].seqno

\* C2 witness: a safe pod was selected although a recovered seqno and an
\* unsafe pod's seqno are higher than the seqno of every safe pod.
C2_Witness ==
    /\ pc = "selected"
    /\ \E s \in src :
        /\ s.origin = "state"
        /\ \A p \in DOMAIN rs.states : rs.states[p].safe => rs.states[p].seqno <= s.seqno
        /\ \E q \in DOMAIN rs.recovered : rs.recovered[q] > s.seqno
        /\ \E q \in DOMAIN rs.states : ~rs.states[q].safe /\ rs.states[q].seqno > s.seqno

\* C3: the selected pod has the greatest seqno of the used collection and the
\* smallest name among the pods with that seqno; there is no source exactly
\* when the collection is empty.  This fixes the result by the contents of
\* the two maps alone.
C3_MaxSeqnoSmallestName ==
    pc = "selected" =>
        LET coll == UsedCollection(rs) IN
        IF DOMAIN coll = {}
        THEN src = {}
        ELSE /\ Cardinality(src) = 1
             /\ \A s \in src :
                 /\ s.pod \in DOMAIN coll
                 /\ s.seqno = coll[s.pod]
                 /\ \A q \in DOMAIN coll :
                     \/ coll[q] < s.seqno
                     \/ coll[q] = s.seqno /\ s.pod <= q

\* C3 witness: the source comes from recovered, a pod with a smaller name has
\* a smaller seqno and a pod with a greater name has the same seqno.
C3_Witness ==
    /\ pc = "selected"
    /\ \E s \in src :
        /\ s.origin = "recovered"
        /\ \E q \in DOMAIN rs.recovered : q < s.pod /\ rs.recovered[q] < s.seqno
        /\ \E q \in DOMAIN rs.recovered : q > s.pod /\ rs.recovered[q] = s.seqno

\* C4: the pods restartPods deleted so far are: first the bootstrap pod of
\* the status, then the other pods by ascending index without a gap, none
\* twice; and when the loop is over all the replicas were deleted.
C4_RestartOrder ==
    deleted # <<>> =>
        /\ \E bp \in StatusBootstrap :
            /\ deleted[1] = bp
            /\ \A i \in 2 .. Len(deleted) :
                /\ deleted[i] # bp
                /\ \A j \in 2 .. (i - 1) : deleted[j] < deleted[i]
                /\ \A q \in AllPods :
                    (q # bp /\ q < deleted[i]) => \E j \in 2 .. (i - 1) : deleted[j] = q
        /\ (pc = "restarted" \/ podsRestarted(rs)) =>
            /\ Len(deleted) = NumPods
            /\ {deleted[i] : i \in 1 .. Len(deleted)} = AllPods

\* C4 witness: the loop is over and the bootstrap pod was neither the first
\* nor the last replica.
C4_Witness ==
    /\ pc = "restarted"
    /\ deleted[1] # 0
    /\ deleted[1] # NumPods - 1
    /\ Len(deleted) = NumPods

\* C5: during the collection, the goroutines (which alone call
\* ensurePodRunning and GetGaleraState) exist only for listed pods without an
\* entry in states when the collection started; those entries are the ones of
\* the status, also when an earlier invocation stored them.
C5_Memoized ==
    pc = "getState" =>
        /\ \A p \in AllPods :
            task[p] # "none" => p \in pods /\ p \notin DOMAIN StatusRecord.states
        /\ \A p \in DOMAIN StatusRecord.states :
            p \in DOMAIN rs.states /\ rs.states[p] = StatusRecord.states[p]

\* C5 witness: a collection in which the status already holds a pod's state
\* while another pod's agent was asked.
C5_Witness ==
    /\ pc = "getState"
    /\ DOMAIN StatusRecord.states # {}
    /\ "GetGaleraState" \in calls
    /\ \E p \in AllPods : task[p] = "fetched"

\* C6: when the state collection ends with the fetch of some pod failed, the
\* invocation returns an error, yet recoverCluster has issued its status
\* patch before; when that patch went through, the status holds the state of
\* every pod whose fetch succeeded (it is the whole in-memory record).
C6_PartialStatesPersisted ==
    (pc = "done" /\ \E p \in AllPods : task[p] = "fetchFailed") =>
        /\ result = "error"
        /\ patch \in {"ok", "failed"}
        /\ patch = "ok" =>
            /\ stored = ToStatus(rs)
            /\ \A p \in AllPods :
                task[p] = "fetched" =>
                    /\ p \in DOMAIN StatusRecord.states
                    /\ StatusRecord.states[p] = rs.states[p]

\* C6 witness: a collection with a failed and a successful fetch has returned
\* its error, and the status holds the fetched state.
C6_Witness ==
    /\ pc = "done"
    /\ result = "error"
    /\ patch = "ok"
    /\ \E p \in AllPods : task[p] = "fetchFailed"
    /\ \E p \in AllPods : task[p] = "fetched" /\ p \in DOMAIN StatusRecord.states

\* C7: the error a fan-out returns names every pod whose goroutine failed.
\* g.Wait() returns the first error only, so this does not hold.
C7_EveryFailingPodReported ==
    (pc = "done" /\ result = "error") =>
        \A p \in AllPods : Failed(task[p]) => p \in gerr

\* C8 as stated: an invocation on a status with podsRestarted set and no
\* bootstrap attempt calls no collaborator and deletes no pod.  (Until the
\* invocation's first patch the status is the one it started on.)
C8_NoOpWithoutBootstrap ==
    (/\ pc # "idle"
     /\ patch = "none"
     /\ podsRestarted(StatusRecord)
     /\ StatusBootstrap = {}) =>
        /\ calls = {}
        /\ deleted = <<>>

\* C8 amended: an invocation on a status with podsRestarted set and a
\* bootstrap attempt that has not timed out is a no-op: it returns at once
\* (nil, or the error of listing the pods) having called no agent, deleted no
\* pod and patched nothing.
C8_NoOpWhenBootstrappedAndRestarted ==
    [][(/\ Invoked
        /\ podsRestarted(StatusRecord)
        /\ StatusBootstrap # {}
        /\ ~expired) =>
            /\ pc' = "done"
            /\ result' \in {"ok", "error"}
            /\ pods' # {} => result' = "ok"
            /\ stored' = stored
            /\ patch' = "none"
            /\ calls' = {}
            /\ deleted' = <<>>
            /\ \A p \in AllPods : task'[p] = "none"]_vars

\* C8 witness: such an invocation has returned nil.
C8_Witness ==
    /\ pc = "done"
    /\ result = "ok"
    /\ pods # {}
    /\ patch = "none"
    /\ calls = {}
    /\ podsRestarted(StatusRecord)
    /\ StatusBootstrap # {}
    /\ ~expired

\* C9: once the bootstrap pod has answered restartPods that it is not safe to
\* bootstrap, the in-memory record is cleared, no pod is deleted, and the
\* invocation ends with the patch of the cleared record: nil and an empty
\* status when the patch went through, the patch's error and the status left
\* alone when it did not.
C9_UnsafeBootstrapPodResets ==
    /\ [](safe = "unsafe" =>
            /\ pc \in {"unsafeReset", "done"}
            /\ rs = ZeroRec
            /\ deleted = <<>>
            /\ "Delete" \notin calls
            /\ "IsPodSynced" \notin calls
            /\ pc = "done" =>
                \/ patch = "ok" /\ stored = {} /\ result = "ok"
                \/ patch = "failed" /\ result = "error")
    /\ [][(pc = "unsafeReset" /\ pc' = "done" /\ patch' = "failed") => stored' = stored]_vars

\* C9 witness: the invocation returned nil after the reset on an unsafe
\* bootstrap pod.
C9_Witness ==
    /\ safe = "unsafe"
    /\ pc = "done"
    /\ result = "ok"
    /\ patch = "ok"
    /\ stored = {}
    /\ deleted = <<>>

\* C10: podsRestarted becomes true, in the invocation's record or in the
\* status, only after the loop: every replica was deleted and then reported
\* synced, in the order of podKeys; a poll of the loop that fails ends the
\* invocation with an error and podsRestarted still false.
C10_PodsRestartedAfterFullCycle ==
    /\ [][(\/ ~podsRestarted(StatusRecord) /\ podsRestarted(StatusRecord')
           \/ pc # "idle" /\ ~podsRestarted(rs) /\ podsRestarted(rs')) =>
              /\ pc = "restarted"
              /\ Len(podKeys) = NumPods
              /\ deleted = podKeys
              /\ synced = podKeys
              /\ {podKeys[i] : i \in 1 .. Len(podKeys)} = AllPods]_vars
    /\ [][(pc \in {"delete", "sync"} /\ pc' = "done") =>
              /\ result' = "error"
              /\ ~podsRestarted(rs')
              /\ ~podsRestarted(StatusRecord')]_vars

\* C10 witness: the status holds podsRestarted after a full loop.
C10_Witness ==
    /\ pc = "done"
    /\ result = "ok"
    /\ podsRestarted(StatusRecord)
    /\ Len(deleted) = NumPods
    /\ synced = deleted

\* C11: the record of an invocation gets its bootstrap attempt only in the
\* step in which the poll of Bootstrap.Enable on the selected source's pod
\* succeeded, and for that pod; the status gets a bootstrap attempt only by
\* the patch that follows, which is the next thing the invocation does.  When
\* the poll fails the invocation returns an error, neither the record nor
\* the status holds an attempt, and no pod was deleted by restartPods.
C11_BootstrapRecordedAfterEnable ==
    /\ [](pc = "bootstrapPatch" =>
            /\ "Bootstrap.Enable" \in calls
            /\ \E s \in src : rs.bootstrap = {s.pod}
            /\ deleted = <<>>)
    /\ [][/\ (pc # "idle" /\ rs.bootstrap = {} /\ rs'.bootstrap # {}) =>
                /\ pc = "bootstrap"
                /\ pc' = "bootstrapPatch"
                /\ "Bootstrap.Enable" \in calls'
                /\ \E s \in src : rs'.bootstrap = {s.pod}
          /\ (StatusBootstrap = {} /\ StatusBootstrap' # {}) =>
                /\ pc = "bootstrapPatch"
                /\ patch' = "ok"
                /\ StatusBootstrap' = rs.bootstrap
          /\ (pc = "bootstrapPatch" /\ pc' \notin {"bootstrapPatch", "idle"}) =>
                \/ patch' = "ok" /\ stored' = ToStatus(rs)
                \/ patch' = "failed" /\ pc' = "done" /\ result' = "error"
          /\ (pc = "bootstrap" /\ pc' = "done") =>
                /\ result' = "error"
                /\ "Bootstrap.Enable" \in calls'
                /\ rs'.bootstrap = {}
                /\ StatusBootstrap' = {}
                /\ deleted' = <<>>]_vars

\* C11 witness: the status holds the attempt on the pod of the source that
\* this invocation selected and enabled.
C11_Witness ==
    /\ "Bootstrap.Enable" \in calls
    /\ patch = "ok"
    /\ pc = "restart"
    /\ \E s \in src : StatusBootstrap = {s.pod} /\ s.origin = "recovered"

\* The invocation is at a status patch: after the timeout reset, at the join
\* of the collection or of the recovery-mode pass, after bootstrap, after the
\* reset in restartPods, after the restart loop.
AtPatch ==
    \/ pc \in {"timeoutReset", "bootstrapPatch", "unsafeReset", "restarted"}
    \/ pc \in {"getState", "recover"} /\ \A p \in AllPods : Finished(task[p])

\* C12: a status patch that succeeds leaves in the status exactly the record
\* the invocation holds in memory; the end or the crash of an invocation
\* leaves the status alone; and the next invocation starts from the record
\* of the status (unless it finds the bootstrap attempt timed out or fails
\* to list the pods).  So nothing that was patched is lost by a crash.
C12_PersistedEqualsInMemory ==
    [][/\ (AtPatch /\ pc' # "idle" /\ patch' = "ok") => StatusRecord' = rs'
       /\ (AtPatch /\ pc' # "idle" /\ patch' = "failed") => stored' = stored
       /\ (pc # "idle" /\ pc' = "idle") => stored' = stored
       /\ (Invoked /\ ~timedOut' /\ result' # "error") => rs' = StatusRecord]_vars

\* C12 witness: an invocation that has asked no agent is about to bootstrap
\* from the states and the recovered seqnos that earlier invocations stored.
C12_Witness ==
    /\ pc = "bootstrap"
    /\ calls = {}
    /\ patch = "ok"
    /\ DOMAIN rs.states = AllPods
    /\ DOMAIN rs.recovered # {}
    /\ StatusRecord = rs
    /\ \E s \in src : s.origin = "recovered"

\* C13: the status never holds a record with all four fields at their zero
\* value; a status patch that succeeds leaves no record in the status exactly
\* when states and recovered are empty, bootstrap is absent and podsRestarted
\* is false in the record patched; so after the patch of a reset the status
\* holds no record.
C13_NilIffZero ==
    /\ [](\A r \in stored :
            \/ DOMAIN r.states # {}
            \/ DOMAIN r.recovered # {}
            \/ r.bootstrap # {}
            \/ r.podsRestarted)
    /\ [][/\ (AtPatch /\ pc' # "idle" /\ patch' = "ok") =>
                /\ (stored' = {}) <=>
                      /\ DOMAIN rs'.states = {}
                      /\ DOMAIN rs'.recovered = {}
                      /\ rs'.bootstrap = {}
                      /\ ~rs'.podsRestarted
                /\ stored' # {} => stored' = {rs'}
          /\ (pc \in {"timeoutReset", "unsafeReset"} /\ pc' # "idle" /\ patch' = "ok") =>
                stored' = {}]_vars

\* C13 witness: the reset of a timed-out attempt was patched, every fetch of
\* the collection that followed failed, and the patch of the record, still
\* zero, left no record in the status.
C13_Witness ==
    /\ timedOut
    /\ pc = "done"
    /\ patch = "ok"
    /\ rs = ZeroRec
    /\ stored = {}
    /\ \E p \in AllPods : task[p] = "fetchFailed"

\* C14: when an invocation returns nil with podsRestarted set in its record
\* (the one in which restartPods succeeded, or a later one that found the
\* flag in the status), the status holds no recovery record.  Nothing in
\* reconcileRecovery clears the record after restartPods, so this does not
\* hold: the record stays until its bootstrap attempt times out.
C14_RecordClearedAfterRestart ==
    (pc = "done" /\ result = "ok" /\ podsRestarted(rs) /\ ~timedOut) => stored = {}

\* Every entry of map m is in map n with the same value.
Extends(n, m) == \A p \in DOMAIN m : p \in DOMAIN n /\ n[p] = m[p]

\* C15: inside an invocation every step but a reset keeps the entries of
\* states and recovered with their values, and every change of the status
\* but the patch of a reset does so too: entries are only added.
C15_MapsOnlyGrow ==
    [][/\ (pc \notin {"idle", "done"} /\ pc' \notin {"idle", "unsafeReset"}) =>
            /\ Extends(rs'.states, rs.states)
            /\ Extends(rs'.recovered, rs.recovered)
       /\ (stored' # stored /\ pc \notin {"timeoutReset", "unsafeReset"}) =>
            /\ Extends(StatusRecord'.states, StatusRecord.states)
            /\ Extends(StatusRecord'.recovered, StatusRecord.recovered)]_vars

\* C15 witness: over several invocations the status has got the state of
\* every pod and a recovered seqno, while the recovery of another pod failed.
C15_Witness ==
    /\ pc = "done"
    /\ patch = "ok"
    /\ DOMAIN StatusRecord.states = AllPods
    /\ DOMAIN StatusRecord.recovered # {}
    /\ \E p \in AllPods : task[p] = "recoveryFailed"
    /\ "GetGaleraState" \notin calls

\* The goroutine of pod p is still running.
Running(p) == task[p] \in {"fetching", "enabling", "starting", "disabling"}

\* C16: in both fan-outs a step of one goroutine changes the state of that
\* goroutine alone, a goroutine that is running can take its next step
\* whatever happened to the others, and the phase is left (otherwise than by
\* a crash) only when no goroutine is running.
C16_NoCancellation ==
    /\ [](\A p \in AllPods :
            /\ (pc = "getState" /\ task[p] = "fetching") => ENABLED GetStateTask(p)
            /\ (pc = "recover" /\ task[p] = "enabling") => ENABLED RecoveryEnable(p)
            /\ (pc = "recover" /\ task[p] = "starting") => ENABLED RecoveryStart(p)
            /\ (pc = "recover" /\ task[p] = "disabling") => ENABLED RecoveryDisable(p))
    /\ [][/\ (pc \in {"getState", "recover"} /\ pc' = pc) =>
                \E p \in AllPods :
                    /\ Running(p)
                    /\ \A q \in AllPods \ {p} : task'[q] = task[q]
          /\ (pc \in {"getState", "recover"} /\ pc' \notin {pc, "idle"}) =>
                \A p \in AllPods : ~Running(p)]_vars

\* C16 witness: in the recovery-mode pass one goroutine has failed, another
\* has finished its three polls and a third is still running.
C16_Witness ==
    /\ pc = "recover"
    /\ \E p, q, r \in AllPods :
        /\ task[p] = "recoveryFailed"
        /\ gerr = {p}
        /\ task[q] = "recovered"
        /\ task[r] = "disabling"

\* C17: restartPods on a status without a bootstrap pod returns an error and
\* changes nothing else: no pod deleted, no agent asked, the record and the
\* status as they were, no patch.
C17_RestartWithoutBootstrap ==
    [][(pc = "restart" /\ StatusBootstrap = {} /\ pc' # "idle") =>
            /\ pc' = "done"
            /\ result' = "error"
            /\ deleted' = deleted
            /\ calls' = calls
            /\ safe' = safe
            /\ rs' = rs
            /\ stored' = stored
            /\ patch' = patch]_vars

\* C17 witness: restartPods has returned its error on a status without a
\* bootstrap pod, having called nothing.
C17_Witness ==
    /\ pc = "done"
    /\ result = "error"
    /\ pods # {}
    /\ StatusBootstrap = {}
    /\ calls = {}
    /\ patch = "none"
    /\ deleted = <<>>

\* C18: a collection that went through (no goroutine failed, the patch
\* succeeded) and leaves no state that is safe to bootstrap and no recovered
\* seqno is followed, in the same invocation and without an error, by the
\* recovery-mode pass over the listed pods without a recovered seqno; that
\* pass ends with a status patch; and only when the pass and its patch
\* succeeded the selection is made again and bootstrap follows.
C18_NoSourceStartsRecovery ==
    /\ [](pc = "recover" =>
            /\ result = "none"
            /\ src = {}
            /\ "Bootstrap.Enable" \notin calls)
    /\ [][/\ (/\ pc = "getState"
              /\ pc' \notin {"getState", "idle"}
              /\ gerr = {}
              /\ patch' = "ok"
              /\ \A p \in DOMAIN rs.states : ~rs.states[p].safe
              /\ DOMAIN rs.recovered = {}) =>
                /\ pc' = "recover"
                /\ result' = "none"
                /\ \A p \in AllPods : task'[p] = IF p \in pods THEN "enabling" ELSE "none"
          /\ (pc = "recover" /\ pc' \notin {"recover", "idle"}) =>
                /\ patch' \in {"ok", "failed"}
                /\ patch' = "ok" => StatusRecord' = rs
                /\ pc' \in {"bootstrap", "done"}
                /\ pc' = "done" => result' = "error"
                /\ pc' = "bootstrap" =>
                    /\ patch' = "ok"
                    /\ \A p \in AllPods : task[p] \in {"none", "recovered"}
                    /\ src' # {}
                    /\ \A s \in src' : s.origin = "recovered" /\ s.pod \in DOMAIN rs.recovered]_vars

\* C18 witness: one invocation has collected the states, found no source,
\* run the recovery-mode pass and selected a source from its results.
C18_Witness ==
    /\ pc = "bootstrap"
    /\ "GetGaleraState" \in calls
    /\ "Recovery.Disable" \in calls
    /\ patch = "ok"
    /\ DOMAIN StatusRecord.recovered = pods
    /\ \E s \in src : s.origin = "recovered"

\* A step in which nothing fails: the controller does not crash, getPods
\* lists all the replicas, no poll runs into its deadline, no patch fails,
\* the bootstrap pod answers and is safe to bootstrap, no error is returned.
Calm ==
    /\ pc' = "idle" => pc \in {"idle", "done"}
    /\ Invoked => pods' = AllPods
    /\ result' = "error" => result = "error"
    /\ patch' = "failed" => patch = "failed"
    /\ safe' \in {"error", "unsafe"} => safe' = safe
    /\ \A p \in AllPods : Failed(task'[p]) => Failed(task[p])

\* C19: if from some point on no step fails, then the status holds
\* podsRestarted = true again and again: wherever the failures left the
\* record and the invocation, the recovery gets to the end.
C19_RecoveryCompletes ==
    (<>[][Calm]_vars) => []<>(podsRestarted(StatusRecord))

\* C19 witness: the status holds podsRestarted = true at the end of an
\* invocation that started by the reset of a timed-out attempt left by
\* earlier invocations.
C19_Witness ==
    /\ timedOut
    /\ pc = "done"
    /\ result = "ok"
    /\ podsRestarted(StatusRecord)
    /\ StatusBootstrap # {}

\* C20: no invocation runs forever: again and again the orchestrator is not
\* inside an invocation, because the last one has returned (pc = "done") or
\* the controller process has stopped (pc = "idle").  The polls end by
\* success or by their deadline, the joins wait for goroutines that all end,
\* and the restart loop walks podKeys once.
C20_InvocationTerminates ==
    /\ []<>(pc \in {"idle", "done"})
    /\ [](pc \in {"delete", "sync"} => idx \in 1 .. NumPods /\ Len(deleted) \in {idx - 1, idx})
    /\ [][(pc = "sync" /\ pc' = "delete") => idx' = idx + 1]_vars

\* C20 witness: an invocation that went through the collection, the
\* recovery-mode pass, bootstrap and the whole restart loop has returned.
C20_Witness ==
    /\ pc = "done"
    /\ result = "ok"
    /\ {"GetGaleraState", "Recovery.Enable", "Recovery.Start", "Recovery.Disable",
        "Bootstrap.Enable", "Delete", "IsPodSynced"} \subseteq calls
    /\ Len(synced) = NumPods

\* The control points of recoverCluster: the collector, the recovery-mode
\* driver and the bootstrap executor.
InPipeline == pc \in {"getState", "recover", "bootstrap"}

\* The control points of restartPods.
InRestart == pc \in {"restart", "unsafeReset", "delete", "sync", "restarted"}

\* The agent calls that only recoverCluster makes.
PipelineCalls == {"ensurePodRunning", "Recovery.Enable", "Recovery.Start", "Recovery.Disable",
                  "Bootstrap.Enable"}

\* C21: the collector, the recovery-mode driver and the bootstrap executor
\* run only while no bootstrap attempt is recorded, in memory or in the
\* status.  An invocation that finds a recorded attempt that has not timed
\* out goes to restartPods or returns, and from restartPods no invocation
\* goes back to the pipeline or makes one of its calls.
C21_PipelineOnlyWithoutBootstrap ==
    /\ [](InPipeline => ~isBootstrapping(rs) /\ StatusBootstrap = {})
    /\ [][(Invoked /\ isBootstrapping(StatusRecord) /\ ~expired)
            => pc' \in {"restart", "done"} /\ calls' = {}]_vars
    /\ [][InRestart => /\ pc' \notin {"timeoutReset", "getState", "recover", "bootstrap",
                                      "bootstrapPatch"}
                       /\ calls' \cap PipelineCalls \subseteq calls]_vars

\* C21 witness: an invocation that found a bootstrap attempt in the status,
\* not timed out, is in the restart loop and has made no call of the pipeline.
C21_Witness ==
    /\ pc = "sync"
    /\ isBootstrapping(StatusRecord)
    /\ ~expired
    /\ ~timedOut
    /\ calls = {"GetGaleraState", "Delete"}

\* Every goroutine of the running fan-out has returned.
AllFinished == \A p \in AllPods : Finished(task[p])

\* C22: a failed phase ends the invocation with an error and no later phase
\* runs.  After a failed collection or a failed patch, and after a failed
\* recovery-mode pass or a failed patch, the invocation returns an error
\* without selecting a source; the recovery-mode pass starts only after a
\* collection and a patch without error, bootstrap only after a phase and a
\* patch without error that gave a source, the patch after bootstrap only
\* after Bootstrap.Enable succeeded, and restartPods only at the start of an
\* invocation, after the timeout reset, or after that patch succeeded.  An
\* invocation that has an error has returned.
C22_FailedPhaseStopsInvocation ==
    /\ [][(/\ pc \in {"getState", "recover"}
           /\ AllFinished
           /\ gerr # {} \/ patch' = "failed"
           /\ pc' # "idle")
            => pc' = "done" /\ result' = "error" /\ src' = src /\ calls' = calls]_vars
    /\ [][(pc # "recover" /\ pc' = "recover")
            => pc = "getState" /\ gerr = {} /\ patch' = "ok" /\ src' = {}]_vars
    /\ [][(pc # "bootstrap" /\ pc' = "bootstrap")
            => pc \in {"getState", "recover"} /\ gerr = {} /\ patch' = "ok" /\ src' # {}]_vars
    /\ [][(pc # "bootstrapPatch" /\ pc' = "bootstrapPatch")
            => pc = "bootstrap" /\ isBootstrapping(rs') /\ result' = "none"]_vars
    /\ [][(pc # "restart" /\ pc' = "restart")
            => \/ pc = "idle"
               \/ pc = "timeoutReset" /\ patch' = "ok"
               \/ pc = "bootstrapPatch" /\ patch' = "ok"]_vars
    /\ [](result = "error" => pc = "done")
    /\ [][pc = "done" => pc' \in {"done", "idle"}]_vars

\* C22 witness: the recovery-mode pass failed on one pod after another pod's
\* seqno was recovered; the invocation has returned an error without a
\* selection and without bootstrap.
C22_Witness ==
    /\ pc = "done"
    /\ result = "error"
    /\ patch = "ok"
    /\ gerr # {}
    /\ "Recovery.Disable" \in calls
    /\ DOMAIN rs.recovered # {}
    /\ bootstrapSource(pods, rs) # {}
    /\ src = {}
    /\ "Bootstrap.Enable" \notin calls

\* restartPods has returned the error of a delete poll or of a sync poll: the
\* loop was entered and did not get through podKeys.
RestartPollFailed ==
    /\ pc = "done"
    /\ result = "error"
    /\ safe = "safe"
    /\ Len(synced) < Len(podKeys)

\* C23: the restart loop does not touch the record.  While restartPods
\* deletes and syncs pods, and when one of its polls fails, the in-memory
\* record and the status stay as they are; after such a failure the status
\* still holds the states, the recovered seqnos and the bootstrap attempt the
\* invocation had, with podsRestarted false.  The next invocation, unless it
\* fails to list the pods or finds the attempt timed out, starts from that
\* record in restartPods, without collection and without bootstrap.
C23_RestartFailureKeepsRecord ==
    /\ [][(pc \in {"delete", "sync"})
            => stored' = stored /\ (pc' # "idle" => rs' = rs)]_vars
    /\ [](RestartPollFailed
            => /\ StatusRecord = rs
               /\ isBootstrapping(rs)
               /\ ~podsRestarted(rs))
    /\ [][(/\ Invoked
           /\ isBootstrapping(StatusRecord)
           /\ ~podsRestarted(StatusRecord)
           /\ ~expired
           /\ result' # "error")
            => pc' = "restart" /\ rs' = StatusRecord /\ stored' = stored /\ calls' = {}]_vars

\* C23 witness: the sync poll of the second pod failed in an invocation that
\* had recovered seqnos; the record is still in the status.
C23_Witness ==
    /\ RestartPollFailed
    /\ Len(deleted) = 2
    /\ Len(synced) = 1
    /\ DOMAIN StatusRecord.states = AllPods
    /\ DOMAIN StatusRecord.recovered # {}
    /\ isBootstrapping(StatusRecord)
    /\ ~podsRestarted(StatusRecord)

\* C24: the restart loop is sequential.  The pods reported synced are the
\* pods deleted, in the same order, but for the last deleted pod while its
\* sync poll has not succeeded: at most one pod is between its deletion and
\* its synchronization, and the loop is about to delete a pod only when
\* every pod deleted before was reported synced.
C24_OnePodInFlight ==
    /\ Len(synced) <= Len(deleted)
    /\ Len(deleted) <= Len(synced) + 1
    /\ \A i \in 1 .. Len(synced) : synced[i] = deleted[i]
    /\ pc = "delete" => synced = deleted /\ Len(deleted) = idx - 1
    /\ pc = "sync" => Len(deleted) = Len(synced) + 1 /\ deleted[idx] = podKeys[idx]
    /\ pc = "restarted" => synced = deleted

\* C24 witness: the second pod of the list was deleted and is not reported
\* synced yet; the first was deleted and synced before.
C24_Witness ==
    /\ pc = "sync"
    /\ idx = 2
    /\ Len(deleted) = 2
    /\ synced = <<deleted[1]>>

----------------------------------------------------------------------------
(* The restart loop of restartPods, poll attempt by poll attempt            *)

\* The pod-sync timeout on the scale of elapsed.
SyncTimeout == 2

\* The Pod objects the loop may find: a pod that runs, or one that was
\* created and does not run yet.
InitialPods == {[phase |-> ph, term |-> FALSE, fresh |-> FALSE] : ph \in {"Running", "Pending"}}

\* The pods the running handler has deleted.
Deleted == {deleted[i] : i \in 1 .. Len(deleted)}

\* The kubelet has stopped a pod whose deletion was requested: its object is
\* gone.
PodGone(p) ==
    /\ pc \in {"delete", "sync", "ensure", "ensureDelete", "pollRunning"}
    /\ cluster[p].term
    /\ cluster' = [cluster EXCEPT ![p] = [phase |-> "Absent", term |-> FALSE, fresh |-> FALSE]]
    /\ UNCHANGED <<stored, expired, pc, rs, pods, task, gerr, src, podKeys, idx, result,
                   calls, patch, safe, deleted, synced, timedOut, seen, elapsed, deadline>>
    /\ UNCHANGED histVars

\* The StatefulSet controller creates the missing pod again, under the same
\* name.
PodCreated(p) ==
    /\ pc \in {"delete", "sync", "ensure", "ensureDelete", "pollRunning"}
    /\ cluster[p].phase = "Absent"
    /\ cluster' = [cluster EXCEPT ![p] = [phase |-> "Pending", term |-> FALSE,
                                          fresh |-> p \in Deleted]]
    /\ UNCHANGED <<stored, expired, pc, rs, pods, task, gerr, src, podKeys, idx, result,
                   calls, patch, safe, deleted, synced, timedOut, seen, elapsed, deadline>>
    /\ UNCHANGED histVars

\* The containers of a pending pod start.
PodStarted(p) ==
    /\ pc \in {"delete", "sync", "ensure", "ensureDelete", "pollRunning"}
    /\ cluster[p].phase = "Pending"
    /\ ~cluster[p].term
    /\ cluster' = [cluster EXCEPT ![p].phase = "Running"]
    /\ UNCHANGED <<stored, expired, pc, rs, pods, task, gerr, src, podKeys, idx, result,
                   calls, patch, safe, deleted, synced, timedOut, seen, elapsed, deadline>>
    /\ UNCHANGED histVars

\* Time passes while the loop runs, up to the deadline of syncContext.
SyncClock ==
    /\ pc \in {"delete", "sync"}
    /\ elapsed < deadline
    /\ elapsed' = elapsed + 1
    /\ UNCHANGED <<stored, expired, pc, rs, pods, task, gerr, src, podKeys, idx, result,
                   calls, patch, safe, deleted, synced, timedOut, cluster, seen, deadline>>
    /\ UNCHANGED histVars

\* One attempt of pollUntilPodDeleted for podKeys[idx]: Get the pod, Delete
\* it.  An error of Get (there is no such pod) or of Delete makes the poll
\* try again; a Delete that is accepted marks the pod for deletion and ends
\* the poll.
SeqDelete ==
    /\ pc = "delete"
    /\ elapsed < deadline
    /\ \E apiOk \in BOOLEAN :
        LET p == podKeys[idx] IN
        IF apiOk /\ cluster[p].phase # "Absent"
        THEN /\ cluster' = [cluster EXCEPT ![p].term = TRUE]
             /\ deleted' = Append(deleted, p)
             /\ calls' = calls \cup {"Delete"}
             /\ pc' = "sync"
        ELSE UNCHANGED <<cluster, deleted, calls, pc>>
    /\ UNCHANGED <<stored, expired, rs, pods, task, gerr, src, podKeys, idx, result,
                   patch, safe, synced, timedOut, seen, elapsed, deadline>>
    /\ UNCHANGED histVars

\* SeqSync with a deadline of its own for every pod of the list.
SeqSyncOwnDeadline ==
    /\ pc = "sync"
    /\ elapsed < deadline
    /\ \E answer \in {"error", "no", "yes"} :
        LET p == podKeys[idx] IN
        IF cluster[p].phase = "Absent"
        THEN UNCHANGED <<calls, synced, seen, idx, pc, deadline>>
        ELSE /\ calls' = calls \cup {"IsPodSynced"}
             /\ IF answer = "yes" /\ cluster[p].phase = "Running"
                THEN /\ synced' = Append(synced, p)
                     /\ seen' = Append(seen, cluster[p])
                     /\ deadline' = elapsed + SyncTimeout
                     /\ IF idx < Len(podKeys)
                        THEN /\ idx' = idx + 1
                             /\ pc' = "delete"
                        ELSE /\ idx' = idx
                             /\ pc' = "restarted"
                ELSE UNCHANGED <<synced, seen, idx, pc, deadline>>
    /\ UNCHANGED <<stored, expired, rs, pods, task, gerr, src, podKeys, result,
                   patch, safe, deleted, timedOut, cluster, elapsed>>
    /\ UNCHANGED histVars

\* One attempt of pollUntilPodSynced for podKeys[idx]: Get the pod (its
\* phase is not looked at), ask the SQL client whether the node is synced.
\* An error of Get or of the query, or a node that is not synced, makes the
\* poll try again; only a pod whose containers run can answer that it is
\* synced.  The answer ends the poll and the loop goes on.
SeqSync ==
    /\ pc = "sync"
    /\ elapsed < deadline
    /\ \E answer \in {"error", "no", "yes"} :
        LET p == podKeys[idx] IN
        IF cluster[p].phase = "Absent"
        THEN UNCHANGED <<calls, synced, seen, idx, pc>>
        ELSE /\ calls' = calls \cup {"IsPodSynced"}
             /\ IF answer = "yes" /\ cluster[p].phase = "Running"
                THEN /\ synced' = Append(synced, p)
                     /\ seen' = Append(seen, cluster[p])
                     /\ IF idx < Len(podKeys)
                        THEN /\ idx' = idx + 1
                             /\ pc' = "delete"
                        ELSE /\ idx' = idx
                             /\ pc' = "restarted"
                ELSE UNCHANGED <<synced, seen, idx, pc>>
    /\ UNCHANGED <<stored, expired, rs, pods, task, gerr, src, podKeys, result,
                   patch, safe, deleted, timedOut, cluster, elapsed, deadline>>
    /\ UNCHANGED histVars

\* syncContext is done: the running poll returns its error and restartPods
\* returns it.
SeqExpired ==
    /\ pc \in {"delete", "sync"}
    /\ elapsed >= deadline
    /\ Return("error")
    /\ UNCHANGED <<stored, expired, rs, pods, src, podKeys, idx, calls, patch, safe,
                   deleted, synced, timedOut, cluster, seen, elapsed, deadline>>
    /\ UNCHANGED histVars

\* restartPods has built podKeys for the bootstrap pod of the status, whose
\* agent answered safe to bootstrap, and has just created syncContext.
InitSeq ==
    /\ stored \in {st \in InputStatuses : /\ isBootstrapping(newRecoveryStatus(st))
                                          /\ ~podsRestarted(newRecoveryStatus(st))}
    /\ expired = FALSE
    /\ pc = "delete"
    /\ rs = newRecoveryStatus(stored)
    /\ pods = AllPods
    /\ task = NoTasks
    /\ gerr = {}
    /\ src = {}
    /\ podKeys \in {PodKeysFor(bp) : bp \in StatusBootstrap}
    /\ idx = 1
    /\ result = "none"
    /\ calls = {"GetGaleraState"}
    /\ patch = "none"
    /\ safe = "safe"
    /\ deleted = <<>>
    /\ synced = <<>>
    /\ timedOut = FALSE
    /\ cluster \in [AllPods -> InitialPods]
    /\ seen = <<>>
    /\ elapsed = 0
    /\ deadline = SyncTimeout
    /\ NoHistory

NextSeq ==
    \/ SeqDelete
    \/ SeqSync
    \/ SeqExpired
    \/ SyncClock
    \/ RestartFinish
    \/ \E p \in AllPods : PodGone(p)
    \/ \E p \in AllPods : PodCreated(p)
    \/ \E p \in AllPods : PodStarted(p)

SpecSeq == InitSeq /\ [][NextSeq]_vars

\* C25: the restart loop goes past a pod only after the pod was deleted, then
\* seen recreated and running, and then reported synced: every pod reported
\* synced was deleted by the loop before, and the Pod object the loop got
\* from the API server for it was a pod created after the deletion, in the
\* Running phase and not marked for deletion.
C25_AdvanceAfterRecreatedAndRunning ==
    \A i \in 1 .. Len(synced) :
        /\ deleted[i] = synced[i]
        /\ seen[i].fresh
        /\ seen[i].phase = "Running"
        /\ ~seen[i].term

\* C26: syncContext is created once for the loop and all the polls share
\* it.  Its deadline stays the one set when restartPods created it; once it
\* has passed no pod is deleted and none is taken as synced, and the
\* invocation returns an error with podsRestarted false in its record and in
\* the status.
C26_SharedSyncDeadline ==
    /\ [](deadline = SyncTimeout /\ elapsed <= SyncTimeout)
    /\ [][(deleted' # deleted \/ synced' # synced) => elapsed < SyncTimeout]_vars
    /\ [][(elapsed >= SyncTimeout /\ pc \in {"delete", "sync"})
            => /\ pc' \in {pc, "done"}
               /\ pc' = "done" => result' = "error"
               /\ rs' = rs
               /\ stored' = stored]_vars
    /\ []((elapsed >= SyncTimeout /\ pc = "done")
            => /\ result = "error"
               /\ ~podsRestarted(rs)
               /\ ~podsRestarted(StatusRecord))

\* C26 witness: the deadline passed after the first pod was deleted and
\* synced and the second was deleted; restartPods has returned the error.
C26_Witness ==
    /\ pc = "done"
    /\ result = "error"
    /\ elapsed = SyncTimeout
    /\ Len(deleted) = 2
    /\ Len(synced) = 1
    /\ ~podsRestarted(StatusRecord)

----------------------------------------------------------------------------
(* recoverGaleraState called on any record                                  *)

\* recoverGaleraState is entered with a record in which any of the listed
\* pods may have a recovered seqno already; the states are there and none is
\* safe to bootstrap.  The status holds that record.
InitRecover ==
    /\ pods \in PodLists
    /\ rs \in [states : {[p \in pods |-> [seqno |-> 0, safe |-> FALSE]]},
               recovered : Maps(pods, Seqnos),
               bootstrap : {{}},
               podsRestarted : {FALSE}]
    /\ stored = ToStatus(rs)
    /\ expired = FALSE
    /\ pc = "recover"
    /\ task = RecoveryTasks(pods, rs)
    /\ gerr = {}
    /\ src = {}
    /\ podKeys = <<>>
    /\ idx = 0
    /\ result = "none"
    /\ calls = {"ensurePodRunning", "GetGaleraState"}
    /\ patch = "ok"
    /\ safe = "unknown"
    /\ deleted = <<>>
    /\ synced = <<>>
    /\ timedOut = FALSE
    /\ NoPodView
    /\ NoHistory

SpecRecover == InitRecover /\ [][Next]_vars

\* The steps of a goroutine of recoverGaleraState.
RecoverySteps ==
    {<<"enabling", "starting">>, <<"enabling", "recoveryFailed">>,
     <<"starting", "disabling">>, <<"starting", "recoveryFailed">>,
     <<"disabling", "recovered">>, <<"disabling", "recoveryFailed">>}

\* C27: in the recovery-mode pass, the listed pods without a recovered seqno
\* when the pass started, and only they, get a goroutine; the seqnos that
\* were there are kept.  A goroutine calls Recovery.Enable, then
\* Recovery.Start, then Recovery.Disable, going on to the next call only
\* when the one before succeeded (Recovery.Disable only with the pod's seqno
\* recorded), and ends with an error, which the group reports, at the first
\* call that fails.
C27_RecoveryStepsInOrder ==
    /\ [](pc = "recover" =>
            \A p \in AllPods :
                /\ task[p] = "none" <=> (p \notin pods \/ p \in DOMAIN StatusRecord.recovered)
                /\ p \in DOMAIN StatusRecord.recovered
                    => p \in DOMAIN rs.recovered /\ rs.recovered[p] = StatusRecord.recovered[p]
                /\ task[p] \in {"disabling", "recovered"} => p \in DOMAIN rs.recovered
                /\ task[p] = "recoveryFailed" => gerr # {})
    /\ [][(pc = "recover" /\ pc' = "recover") =>
            \A p \in AllPods :
                task'[p] # task[p] =>
                    /\ <<task[p], task'[p]>> \in RecoverySteps
                    /\ task[p] = "enabling" => "Recovery.Enable" \in calls'
                    /\ task[p] = "starting" =>
                        /\ {"Recovery.Enable", "Recovery.Start"} \subseteq calls'
                        /\ task'[p] = "disabling" <=> p \in DOMAIN rs'.recovered
                    /\ task[p] = "disabling" =>
                        {"Recovery.Enable", "Recovery.Start", "Recovery.Disable"} \subseteq calls'
                    /\ task'[p] = "recoveryFailed" => rs' = rs /\ gerr' # {}]_vars

\* C27 witness: of three listed pods, one had a recovered seqno and has no
\* goroutine, one went through the three calls, and one failed after
\* Recovery.Start had given its seqno.
C27_Witness ==
    /\ pc = "recover"
    /\ \E p, q, r \in pods :
        /\ p \in DOMAIN StatusRecord.recovered
        /\ task[p] = "none"
        /\ task[q] = "recovered"
        /\ task[r] = "recoveryFailed"
        /\ r \in DOMAIN rs.recovered
        /\ r \notin DOMAIN StatusRecord.recovered

\* The agent calls of the recovery-mode driver.
RecoveryCalls == {"Recovery.Enable", "Recovery.Start", "Recovery.Disable"}

\* C28: the recovery-mode pass runs only when the selection right after the
\* collection gave no source.  When that selection gives a source the
\* invocation goes to bootstrap with it, having made no recovery-mode call,
\* and from bootstrap on it makes none; while the pass runs, and whenever
\* one of its calls was made, the record has no state that is safe to
\* bootstrap.
C28_SourceSkipsRecoveryMode ==
    /\ [][(pc = "getState" /\ pc' \notin {"getState", "idle", "done"})
            => IF bootstrapSource(pods, rs) # {}
               THEN /\ pc' = "bootstrap"
                    /\ src' = bootstrapSource(pods, rs)
                    /\ \A p \in AllPods : task'[p] = "none"
                    /\ calls' \cap RecoveryCalls = {}
               ELSE pc' = "recover"]_vars
    /\ [][(pc \in {"bootstrap", "bootstrapPatch"} \/ InRestart)
            => pc' # "recover" /\ calls' \cap RecoveryCalls \subseteq calls]_vars
    /\ [](pc = "getState" => calls \cap RecoveryCalls = {})
    /\ []((pc = "recover" \/ calls \cap RecoveryCalls # {})
            => Scan(SafeSeqnos(rs), pods, 0, {}) = {})

\* C28 witness: the selection after the collection gave a source and the
\* invocation has bootstrapped and restarted the pods without a call of the
\* recovery-mode driver.
C28_Witness ==
    /\ pc = "done"
    /\ result = "ok"
    /\ src # {}
    /\ calls \cap RecoveryCalls = {}
    /\ "Bootstrap.Enable" \in calls
    /\ Len(synced) = NumPods
    /\ \E p \in DOMAIN rs.states : ~rs.states[p].safe

----------------------------------------------------------------------------
(* ensurePodRunning                                                         *)

\* The Pod objects ensurePodRunning may find under the pod's name: none, or
\* a pod in some phase.
EnsurePods ==
    {[phase |-> ph, term |-> FALSE, fresh |-> FALSE] :
        ph \in {"Absent", "Pending", "Running", "Failed"}}

\* EnsureGet that goes on to delete the pod whatever its phase.
EnsureGetAlwaysDeleting ==
    /\ pc = "ensure"
    /\ \E apiOk \in BOOLEAN :
        LET p == podKeys[idx] IN
        IF ~apiOk \/ cluster[p].phase = "Absent"
        THEN /\ Return("error")
             /\ seen' = seen
        ELSE /\ seen' = Append(seen, cluster[p])
             /\ pc' = "ensureDelete"
             /\ UNCHANGED <<task, gerr, result>>
    /\ UNCHANGED <<stored, expired, rs, pods, src, podKeys, idx, calls, patch, safe,
                   deleted, synced, timedOut, cluster, elapsed, deadline>>
    /\ UNCHANGED histVars

\* ensurePodRunning, the Get: its error is returned; a pod in the Running
\* phase ends the call with nil; any other phase leads to the Delete.
EnsureGet ==
    /\ pc = "ensure"
    /\ \E apiOk \in BOOLEAN :
        LET p == podKeys[idx] IN
        IF ~apiOk \/ cluster[p].phase = "Absent"
        THEN /\ Return("error")
             /\ seen' = seen
        ELSE /\ seen' = Append(seen, cluster[p])
             /\ IF cluster[p].phase = "Running"
                THEN Return("ok")
                ELSE /\ pc' = "ensureDelete"
                     /\ UNCHANGED <<task, gerr, result>>
    /\ UNCHANGED <<stored, expired, rs, pods, src, podKeys, idx, calls, patch, safe,
                   deleted, synced, timedOut, cluster, elapsed, deadline>>
    /\ UNCHANGED histVars

\* ensurePodRunning, the Delete of the pod it got: its error is returned (the
\* pod may be gone by now), else pollUntilPodRunning starts.
EnsureDelete ==
    /\ pc = "ensureDelete"
    /\ \E apiOk \in BOOLEAN :
        LET p == podKeys[idx] IN
        IF apiOk /\ cluster[p].phase # "Absent"
        THEN /\ cluster' = [cluster EXCEPT ![p].term = TRUE]
             /\ deleted' = Append(deleted, p)
             /\ calls' = calls \cup {"Delete"}
             /\ pc' = "pollRunning"
             /\ UNCHANGED <<task, gerr, result>>
        ELSE /\ Return("error")
             /\ UNCHANGED <<cluster, deleted, calls>>
    /\ UNCHANGED <<stored, expired, rs, pods, src, podKeys, idx, patch, safe,
                   synced, timedOut, seen, elapsed, deadline>>
    /\ UNCHANGED histVars

\* One attempt of pollUntilPodRunning: Get the pod; a pod in the Running
\* phase ends the poll with nil, an error of Get or another phase makes the
\* poll try again.
PollRunning ==
    /\ pc = "pollRunning"
    /\ elapsed < deadline
    /\ \E apiOk \in BOOLEAN :
        LET p == podKeys[idx] IN
        IF apiOk /\ cluster[p].phase = "Running"
        THEN /\ seen' = Append(seen, cluster[p])
             /\ Return("ok")
        ELSE UNCHANGED <<seen, pc, result, task, gerr>>
    /\ UNCHANGED <<stored, expired, rs, pods, src, podKeys, idx, calls, patch, safe,
                   deleted, synced, timedOut, cluster, elapsed, deadline>>
    /\ UNCHANGED histVars

\* Time passes up to the deadline of the context ensurePodRunning was given.
PollClock ==
    /\ pc = "pollRunning"
    /\ elapsed < deadline
    /\ elapsed' = elapsed + 1
    /\ UNCHANGED <<stored, expired, pc, rs, pods, task, gerr, src, podKeys, idx, result,
                   calls, patch, safe, deleted, synced, timedOut, cluster, seen, deadline>>
    /\ UNCHANGED histVars

\* The context is done: pollUntilPodRunning returns its error.
PollExpired ==
    /\ pc = "pollRunning"
    /\ elapsed >= deadline
    /\ Return("error")
    /\ UNCHANGED <<stored, expired, rs, pods, src, podKeys, idx, calls, patch, safe,
                   deleted, synced, timedOut, cluster, seen, elapsed, deadline>>
    /\ UNCHANGED histVars

\* ensurePodRunning is called for one pod, whatever its Pod object is, with a
\* context that has a deadline.
InitEnsure ==
    /\ pc = "ensure"
    /\ podKeys \in {<<p>> : p \in AllPods}
    /\ idx = 1
    /\ cluster \in [AllPods -> EnsurePods]
    /\ seen = <<>>
    /\ elapsed = 0
    /\ deadline = 1
    /\ stored = {}
    /\ expired = FALSE
    /\ rs = ZeroRec
    /\ pods = AllPods
    /\ task = NoTasks
    /\ gerr = {}
    /\ src = {}
    /\ result = "none"
    /\ calls = {}
    /\ patch = "none"
    /\ safe = "unknown"
    /\ deleted = <<>>
    /\ synced = <<>>
    /\ timedOut = FALSE
    /\ NoHistory

NextEnsure ==
    \/ EnsureGet
    \/ EnsureDelete
    \/ PollRunning
    \/ PollClock
    \/ PollExpired
    \/ \E p \in AllPods : PodGone(p)
    \/ \E p \in AllPods : PodCreated(p)
    \/ \E p \in AllPods : PodStarted(p)

SpecEnsure == InitEnsure /\ [][NextEnsure]_vars

\* C29: ensurePodRunning deletes only the pod it was called for, once, and
\* only when its Get showed a phase other than Running.  It returns nil
\* either right after a Get that showed Running, without a Delete, or after
\* the Delete and a later Get of pollUntilPodRunning that showed Running;
\* after a Get that showed another phase it is at the Delete, has deleted
\* the pod, or has returned an error.
C29_DeleteOnlyWhenNotRunning ==
    /\ deleted # <<>> =>
        /\ deleted = <<podKeys[1]>>
        /\ seen # <<>>
        /\ seen[1].phase # "Running"
    /\ (pc = "done" /\ result = "ok") =>
        /\ seen # <<>>
        /\ seen[Len(seen)].phase = "Running"
        /\ IF seen[1].phase = "Running"
           THEN deleted = <<>> /\ Len(seen) = 1
           ELSE deleted # <<>> /\ Len(seen) = 2
    /\ (seen # <<>> /\ seen[1].phase # "Running") =>
        \/ pc = "ensureDelete"
        \/ deleted # <<>>
        \/ pc = "done" /\ result = "error"
    /\ pc = "pollRunning" => deleted # <<>>

\* C29 witness: the Get showed a failed pod; it was deleted, and the call
\* has returned nil after a Get that showed the pod created anew and running.
C29_Witness ==
    /\ pc = "done"
    /\ result = "ok"
    /\ deleted # <<>>
    /\ Len(seen) = 2
    /\ seen[1].phase = "Failed"
    /\ seen[2].phase = "Running"
    /\ seen[2].fresh

\* C30: a source is handed to bootstrap only when every pod of the
\* invocation's pod list has an entry in the collection the source comes
\* from: in states for a source with a safe state, in recovered for a source
\* with a recovered seqno.
C30_SourceFromCompleteCollection ==
    (pc \in {"bootstrap", "bootstrapPatch"}) =>
        \A s \in src :
            IF s.origin = "state"
            THEN pods \subseteq DOMAIN rs.states
            ELSE pods \subseteq DOMAIN rs.recovered

----------------------------------------------------------------------------
(* Properties: the agents over several invocations                          *)

\* C31: between two resets of the record, Bootstrap.Enable succeeds on at
\* most one distinct pod, whatever happens to the patch that records the
\* attempt and whenever the controller crashes.
C31_OneBootstrapPodBetweenResets == Cardinality(bootstrapped) <= 1

\* C32: when Bootstrap.Enable is called and when the restart sequencer
\* starts, Recovery.Disable has succeeded on every pod that has an entry in
\* recovered: a pod whose Disable failed was taken up again by a later
\* invocation.
C32_RecoveredPodsLeftRecoveryMode ==
    (pc \in {"bootstrap", "bootstrapPatch", "restart"}) =>
        undisabled \cap DOMAIN rs.recovered = {}

----------------------------------------------------------------------------
(* Properties: selection, dispatch and the restart flag                     *)

C34_RestartEnteredWithStatusBootstrap ==
    pc = "restart" => StatusBootstrap # {} /\ StatusBootstrap = rs.bootstrap

\* restartPods entered in the invocation that bootstrapped the cluster.
C34_Witness ==
    /\ pc = "restart"
    /\ "Bootstrap.Enable" \in calls
    /\ patch = "ok"
    /\ StatusBootstrap # {}

C36_RestartedImpliesBootstrap ==
    /\ podsRestarted(rs) => isBootstrapping(rs)
    /\ podsRestarted(StatusRecord) => isBootstrapping(StatusRecord)

\* restartPods has finished and its patch stored the flag.
C36_Witness ==
    /\ pc = "done"
    /\ result = "ok"
    /\ podsRestarted(rs)
    /\ podsRestarted(StatusRecord)
    /\ Len(synced) = Cardinality(pods)

\* The status holds a bootstrap attempt and podsRestarted = true.
RestartedRecord == podsRestarted(StatusRecord) /\ StatusBootstrap # {}

\* C37 as stated: once the status holds podsRestarted = true and a bootstrap
\* attempt, nothing changes the record any more, and no invocation after the
\* one that set the flag calls an agent or deletes a pod.  An invocation that
\* finds the attempt older than the bootstrap timeout resets the record, so
\* this does not hold.
C37_QuietOnceRestarted ==
    [][RestartedRecord =>
            /\ stored' = stored
            /\ calls' = {}
            /\ deleted' = <<>>]_vars

\* C37 amended: the same, up to the invocation that finds the bootstrap
\* attempt timed out; that one alone touches the record, by clearing it.
C37_QuietUntilTimeout ==
    [][RestartedRecord =>
            IF pc = "timeoutReset"
            THEN stored' \in {stored, {}}
            ELSE /\ stored' = stored
                 /\ calls' = {}
                 /\ deleted' = <<>>
                 /\ pc' \in {"idle", "done", "timeoutReset"}
                 /\ pc' = "timeoutReset" => expired /\ timedOut'
                 /\ (Invoked /\ ~expired) => pc' = "done" /\ rs' \in {StatusRecord, ZeroRec}]_vars

\* An invocation after the one that restarted the pods has returned nil
\* without a call, on the record the orchestrator's own bootstrap left.
C37_Witness ==
    /\ pc = "done"
    /\ result = "ok"
    /\ calls = {}
    /\ RestartedRecord
    /\ rs = StatusRecord
    /\ StatusBootstrap \subseteq bootstrapped

\* C38: before a bootstrap attempt is committed (state collection, the
\* recovery-mode pass, bootstrap and its patch) the only deletions are the
\* ones inside ensurePodRunning, which deletes a pod it saw not running (see
\* C29); the unconditional Delete of the restart loop is made only when the
\* agent accepted Bootstrap.Enable for the pod in the status since the last
\* reset and that pod has answered restartPods that it is safe to bootstrap,
\* and it starts with that pod.
C38_UnconditionalDeleteOnlyInRestart ==
    /\ (InPipeline \/ pc \in {"timeoutReset", "bootstrapPatch", "restart", "unsafeReset"}) =>
            deleted = <<>> /\ "Delete" \notin calls
    /\ (deleted # <<>> \/ "Delete" \in calls \/ pc = "delete") =>
            /\ safe = "safe"
            /\ StatusBootstrap # {}
            /\ StatusBootstrap \subseteq bootstrapped
            /\ podKeys[1] \in StatusBootstrap
            /\ "GetGaleraState" \in calls

\* The invocation that bootstrapped the cluster has gone on to delete the
\* bootstrap pod and a second pod.
C38_Witness ==
    /\ Len(deleted) >= 2
    /\ "Bootstrap.Enable" \in calls
    /\ "ensurePodRunning" \in calls
    /\ deleted[1] \in StatusBootstrap
    /\ deleted[1] \in bootstrapped

\* C39: Bootstrap.Enable is called only on a selection whose entries are
\* stored: while bootstrap runs and until its own patch, the latest patch
\* succeeded, the status holds the states and recovered maps of the
\* in-memory record, and the entry the source was taken from is among them.
\* A join whose patch failed has ended the invocation before.
C39_BootstrapFromPersistedEntries ==
    (pc \in {"bootstrap", "bootstrapPatch"}) =>
        /\ patch = "ok"
        /\ StatusRecord.states = rs.states
        /\ StatusRecord.recovered = rs.recovered
        /\ \A s \in src :
              IF s.origin = "state"
              THEN s.pod \in DOMAIN StatusRecord.states
              ELSE s.pod \in DOMAIN StatusRecord.recovered

\* Bootstrap.Enable was accepted for a source taken from recovered, after
\* the recovery-mode pass of this invocation was stored.
C39_Witness ==
    /\ pc = "bootstrapPatch"
    /\ "Recovery.Disable" \in calls
    /\ \E s \in src : s.origin = "recovered" /\ s.pod \in DOMAIN StatusRecord.recovered
    /\ StatusRecord.bootstrap = {}
    /\ rs.bootstrap # {}

====
